---- MODULE Spec2Model ----
(***************************************************************************)
(* A model of the asmbl build engine (gsrushton/asmbl, crates/core).       *)
(*                                                                         *)
(* Modelled so far: the Unit a front-end fills through add_task, the task  *)
(* graph builder TaskList::new (flattening, target index, prerequisite     *)
(* resolution, reverse edges, ordering walk) and the staleness evaluator   *)
(* TaskList::retain_out_of_date, one closure call per step.                *)
(*                                                                         *)
(* Conventions.  Handles and indices are 0-based as in the Rust code; a    *)
(* TLA+ sequence is 1-based, so At(s, i) reads the element the code calls  *)
(* s[i].  A path is a sequence of component ids.  Option<T> is modelled by *)
(* a sequence of length at most one: <<>> is None and <<t>> is Some(t).    *)
(***************************************************************************)
EXTENDS Integers, Sequences, FiniteSets, TLC

\* ------------------------------------------------------------------ bounds

\* Most tasks a front-end adds to the Unit.
MaxTasks == 3

\* File modification times range over 1..MaxTime.
MaxTime == 2

\* Most tasks of the Unit in SpecStale, the specification that follows the
\* staleness evaluation of short task lists.
MaxStaleTasks == 2

\* Most segments of a path handed to relativise (after the root).
MaxPathLen == 2

\* Most consumed inputs of a task handed to Unit::decompose.
MaxConsumes == 3

\* Most sub-units one unit file declares.
MaxSubUnits == 2

\* Most characters of a target spec.
MaxSpecLen == 4

\* Most elements of a Recipe, the closing Break included.
MaxElements == 3

\* The largest index of an indexed recipe variable.
MaxIndex == 2

\* Most entries of a task's EnvSpec list.
MaxEnv == 3

\* Most Units handed to TaskList::new in SpecFuse.
MaxUnits == 2

\* Most (target, prerequisite) pairs the Units of SpecFuse hold together.
MaxPairs == 1

\* Most rules of a Makefile fragment.
MaxRules == 2

\* Most targets of a rule, and most prerequisites of a rule.
MaxRuleIdents == 2

\* Most calls of next() that return None which SpecMake follows.
MaxNones == 2

\* Most characters of a recipe variable's name that is not a keyword.
MaxNameLen == 2

\* Most digits of the index written after a recipe variable.
MaxDigits == 2

\* ------------------------------------------------------------------ state

VARIABLES
    units,               \* Vec<Unit> handed to TaskList::new (gather order)
    tasks,               \* TaskList.tasks once TaskList::new has run
    pc,                  \* "build", "planned", "panic", "eval", "done" or "built"
    fs,                  \* the files stat'ed so far: file -> file state
    modification_times,  \* the Vec<Option<SystemTime>> of retain_out_of_date
    stale,               \* the (TaskHandle, &Task) pairs collected so far
    result,              \* what retain_out_of_date returned, <<>> while none
    run,                 \* which invocation of the program this is: 1 or 2
    built,               \* what the commands of the first invocation did
    call                 \* a library call made outside the planner, and its value

vars == <<units, tasks, pc, fs, modification_times, stale, result, run, built, call>>

\* The variables of the planner.
engine == <<units, tasks, pc, fs, modification_times, stale, result, run, built>>

\* ---------------------------------------------------------------- helpers

None == <<>>

Some(t) == <<t>>

At(s, i) == s[i + 1]

Max(a, b) == IF a > b THEN a ELSE b

Range(s) == {s[i] : i \in 1..Len(s)}

RECURSIVE Concat(_)
Concat(ss) == IF ss = <<>> THEN <<>> ELSE Head(ss) \o Concat(Tail(ss))

\* SystemTime::now() at the start of retain_out_of_date: later than every
\* modification time on disk.  The second invocation starts after every
\* command of the first has ended.
Now == IF run = 1 THEN MaxTime + 1 ELSE MaxTime + MaxTasks + 2

\* The target prefix directory TaskList::new joins external names with.
Prefix == <<0>>

\* path::Path::join for a relative name.
Join(prefix, name) == prefix \o name

\* ------------------------------------------------------ prerequisite specs

NamedSpec(path, optional) ==
    [kind |-> "Named", path |-> path, optional |-> optional]

HandleSpec(task_index, target_index) ==
    [kind |-> "Handle", task_index |-> task_index, target_index |-> target_index]

\* TargetSpecHandle::resolve: the global task a Unit-local handle names.
ResolveHandle(handle, task_offset) == handle.task_index + task_offset

\* ------------------------------------------------------------------- Unit

NewUnit == [tasks |-> <<>>, prerequisites |-> <<>>]

\* Unit::add_task: push the (targets, TaskSpec) pair.
UnitAddTask(unit, targets, consumes, depends_on, not_before) ==
    [unit EXCEPT !.tasks = Append(@,
        [targets |-> targets, consumes |-> consumes,
         depends_on |-> depends_on, not_before |-> not_before])]

\* Unit::add_prerequisite: push the (target, prerequisite) pair.
UnitAddPrerequisite(unit, target, prerequisite) ==
    [unit EXCEPT !.prerequisites = Append(@, <<target, prerequisite>>)]

\* TargetSpecHandleIterator: the handles add_task returns for its task.
TargetSpecHandles(task_index, target_count) ==
    [i \in 1..target_count |-> HandleSpec(task_index, i - 1)]

\* -------------------------------------------------- TaskList::new, stage 1

\* The scan of lines 570-581: every spec paired with its Unit's task offset.
RECURSIVE FlattenSpecs(_, _)
FlattenSpecs(us, count) ==
    IF us = <<>> THEN <<>>
    ELSE [i \in 1..Len(Head(us).tasks) |->
             [spec |-> Head(us).tasks[i], offset |-> count]]
         \o FlattenSpecs(Tail(us), count + Len(Head(us).tasks))

\* The (target, prerequisite) pairs of all Units, in order.
FlattenPrerequisites(us) == Concat([u \in 1..Len(us) |-> us[u].prerequisites])

\* target_lut: path -> (task_index, target_index).  Collecting into a
\* HashMap keeps, for a path produced twice, the binding inserted last.
LutEntries(targets, path) ==
    {e \in (0..(Len(targets) - 1)) \X (0..MaxTasks) :
        /\ e[2] < Len(At(targets, e[1]))
        /\ At(At(targets, e[1]), e[2]) = path}

LutGet(targets, path) ==
    LET es == LutEntries(targets, path) IN
    IF es = {} THEN None
    ELSE Some(CHOOSE e \in es : \A o \in es :
                 \/ o[1] < e[1]
                 \/ (o[1] = e[1] /\ o[2] <= e[2]))

\* Lines 597-609: every pair whose target some task produces adds a Named
\* entry to that task's depends_on; other pairs are dropped.
RECURSIVE MergePrerequisites(_, _, _)
MergePrerequisites(specs, targets, pairs) ==
    IF pairs = <<>> THEN specs
    ELSE LET hit == LutGet(targets, Head(pairs)[1])
             next == IF hit = None THEN specs
                     ELSE [specs EXCEPT ![hit[1][1] + 1].spec.depends_on =
                              Append(@, [kind |-> "Named", path |-> Head(pairs)[2]])]
         IN MergePrerequisites(next, targets, Tail(pairs))

\* -------------------------------------------------- TaskList::new, stage 2

\* resolve_prequisite (lines 617-638): the Prerequisite and the input path it
\* stands for.  The optional flag of a Named spec has no place in
\* Prerequisite::Named (lines 107-110).
ResolvePrerequisite(prerequisite, offset, targets) ==
    IF prerequisite.kind = "Handle"
    THEN [prerequisite |-> [kind |-> "Handle",
                            index |-> ResolveHandle(prerequisite, offset)],
          path |-> At(At(targets, prerequisite.task_index),
                      prerequisite.target_index)]
    ELSE LET hit == LutGet(targets, prerequisite.path) IN
         IF hit # None
         THEN [prerequisite |-> [kind |-> "Handle", index |-> hit[1][1]],
               path |-> At(At(targets, hit[1][1]), hit[1][2])]
         ELSE [prerequisite |-> [kind |-> "Named",
                                 path |-> Join(Prefix, prerequisite.path)],
               path |-> Join(Prefix, prerequisite.path)]

\* A resolution that takes the path of every prerequisite as an input.
ResolveSpecAllInputs(s, specs, targets) ==
    LET spec == At(specs, s).spec
        offset == At(specs, s).offset
        res(list) == [i \in 1..Len(list) |->
                         ResolvePrerequisite(list[i], offset, targets)]
        all == res(spec.consumes) \o res(spec.depends_on) \o res(spec.not_before)
    IN [targets |-> At(targets, s),
        inputs |-> [i \in 1..Len(all) |-> all[i].path],
        upstream |-> [i \in 1..Len(all) |-> all[i].prerequisite]]

\* Lines 640-657: upstream is consumes, then depends_on, then not_before;
\* inputs are the paths of consumes only.
ResolveSpec(s, specs, targets) ==
    LET spec == At(specs, s).spec
        offset == At(specs, s).offset
        res(list) == [i \in 1..Len(list) |->
                         ResolvePrerequisite(list[i], offset, targets)]
        consumes == res(spec.consumes)
        depends_on == res(spec.depends_on)
        not_before == res(spec.not_before)
        all == consumes \o depends_on \o not_before
    IN [targets |-> At(targets, s),
        inputs |-> [i \in 1..Len(consumes) |-> consumes[i].path],
        upstream |-> [i \in 1..Len(all) |-> all[i].prerequisite]]

\* downstreams[p] (lines 611, 634-636): task s is pushed once for every
\* Handle(p) in its upstream, tasks in index order.
\* Reverse edges recorded for the consumes prerequisites only.
RECURSIVE DownstreamOfConsumes(_, _, _)
DownstreamOfConsumes(p, resolved, s) ==
    IF s >= Len(resolved) THEN <<>>
    ELSE SelectSeq([i \in 1..Len(At(resolved, s).inputs) |->
                       IF /\ At(resolved, s).upstream[i].kind = "Handle"
                          /\ At(resolved, s).upstream[i].index = p
                       THEN Some(s) ELSE None],
                   LAMBDA o : o # None)
         \o DownstreamOfConsumes(p, resolved, s + 1)

RECURSIVE DownstreamOf(_, _, _)
DownstreamOf(p, resolved, s) ==
    IF s >= Len(resolved) THEN <<>>
    ELSE SelectSeq([i \in 1..Len(At(resolved, s).upstream) |->
                       IF /\ At(resolved, s).upstream[i].kind = "Handle"
                          /\ At(resolved, s).upstream[i].index = p
                       THEN Some(s) ELSE None],
                   LAMBDA o : o # None)
         \o DownstreamOf(p, resolved, s + 1)

Unwrap(opts) == [i \in 1..Len(opts) |-> opts[i][1]]

\* Lines 664-678: unordered_tasks.  The field id is the task's index in
\* unordered_tasks; the code has no such field, the model keeps it to tell
\* which task stands where after the reordering.
UnorderedTasks(resolved) ==
    [k \in 1..Len(resolved) |->
        [id |-> k - 1,
         targets |-> resolved[k].targets,
         inputs |-> resolved[k].inputs,
         upstream |-> resolved[k].upstream,
         downstream |-> Unwrap(DownstreamOf(k - 1, resolved, 0))]]

\* -------------------------------------------------- TaskList::new, stage 3

HasHandle(task) == \E i \in 1..Len(task.upstream) : task.upstream[i].kind = "Handle"

\* Lines 680-699: the tasks without a Handle upstream, in index order.
Leaves(unordered) ==
    Unwrap(SelectSeq([k \in 1..Len(unordered) |->
                         IF HasHandle(unordered[k]) THEN None ELSE Some(k - 1)],
                     LAMBDA o : o # None))

\* A walk without the taken sentinel: every downstream index is pushed,
\* whether or not its task was placed before.
RECURSIVE PushDownstreamsNoTake(_, _)
PushDownstreamsNoTake(order, downstream_indices) ==
    IF downstream_indices = <<>> THEN order
    ELSE PushDownstreamsNoTake(Append(order, Head(downstream_indices)),
                               Tail(downstream_indices))

\* Lines 711-715: Option::take() on unordered_tasks[downstream_index]; the
\* task is pushed only if it was still there.
RECURSIVE PushDownstreams(_, _)
PushDownstreams(order, downstream_indices) ==
    IF downstream_indices = <<>> THEN order
    ELSE PushDownstreams(
             IF Head(downstream_indices) \in Range(order) THEN order
             ELSE Append(order, Head(downstream_indices)),
             Tail(downstream_indices))

\* Lines 705-716: for i in s..e.
RECURSIVE WalkRange(_, _, _, _)
WalkRange(order, unordered, i, e) ==
    IF i >= e THEN order
    ELSE WalkRange(PushDownstreams(order, At(unordered, At(order, i)).downstream),
                   unordered, i + 1, e)

\* The step of the while loop, line 717.
NextStart(e) == e + 1

\* Lines 703-719: while s < tasks.len().
RECURSIVE Walk(_, _, _, _)
Walk(order, unordered, s, e) ==
    IF s >= Len(order) THEN order
    ELSE LET walked == WalkRange(order, unordered, s, e)
         IN Walk(walked, unordered, NextStart(e), Len(walked))

\* Lines 570-581: the Targets of every task, in flattened order.
FlatTargets(us) ==
    LET flat == FlattenSpecs(us, 0) IN [k \in 1..Len(flat) |-> flat[k].spec.targets]

\* The specs after lines 597-609.
MergedSpecs(us) ==
    MergePrerequisites(FlattenSpecs(us, 0), FlatTargets(us), FlattenPrerequisites(us))

\* Lines 611-678: the graph before it is ordered.
Unordered(us) ==
    LET specs == MergedSpecs(us) IN
    UnorderedTasks([k \in 1..Len(specs) |-> ResolveSpec(k - 1, specs, FlatTargets(us))])

\* TaskList::new (lines 561-723).
TaskListNew(us) ==
    LET unordered == Unordered(us)
        leaves == Leaves(unordered)
        order == Walk(leaves, unordered, 0, Len(leaves))
    IN [k \in 1..Len(order) |-> At(unordered, order[k])]

\* Line 621 indexes targets[handle.task_index][handle.target_index]; a Vec
\* indexed past its length panics.
NewPanics(us) ==
    LET flat == FlattenSpecs(us, 0)
        targets == FlatTargets(us)
    IN \E k \in 1..Len(flat) :
          \E ps \in Range(flat[k].spec.consumes \o flat[k].spec.depends_on
                            \o flat[k].spec.not_before) :
             /\ ps.kind = "Handle"
             /\ \/ ps.task_index >= Len(targets)
                \/ ps.target_index >= Len(At(targets, ps.task_index))

\* ------------------------------------------------------------ file system

\* What fs::metadata(file) and Metadata::modified() give for a file: it is
\* there with a modification time, it is not found, metadata fails with
\* another error, or the platform gives no modification time.
Present(t) == [st |-> "Present", mtime |-> t]

Missing == [st |-> "Missing", mtime |-> 0]

Denied == [st |-> "Denied", mtime |-> 0]

NoMtime == [st |-> "NoMtime", mtime |-> 0]

FileStates == {Present(t) : t \in 1..MaxTime} \cup {Missing, Denied, NoMtime}

\* The files the evaluation of a task looks at.
TaskFiles(task) ==
    Range(task.targets)
    \cup {task.upstream[i].path :
            i \in {k \in 1..Len(task.upstream) : task.upstream[k].kind = "Named"}}

\* ------------------------------------------------ retain_out_of_date

Ok(time) == [kind |-> "Ok", time |-> time, err |-> ""]

Err(err) == [kind |-> "Err", time |-> None, err |-> err]

Panic == [kind |-> "Panic", time |-> None, err |-> ""]

\* modified_time (lines 739-749): any metadata error of a prerequisite is
\* PrerequisiteMissing.
ModifiedTime(file, files) ==
    IF files[file].st = "Present" THEN Ok(Some(files[file].mtime))
    ELSE IF files[file].st = "NoMtime" THEN Err("NoLastModifiedTime")
    ELSE Err("PrerequisiteMissing")

\* Lines 750-755: the time a prerequisite contributes.  A Handle reads
\* modification_times[handle.index]; indexing a Vec past its length panics.
PrerequisiteTime(prerequisite, times, files) ==
    IF prerequisite.kind = "Named" THEN ModifiedTime(prerequisite.path, files)
    ELSE IF prerequisite.index >= Len(times) THEN Panic
    ELSE Ok(At(times, prerequisite.index))

\* Lines 735-764: filter_map drops a None record, try_fold keeps the
\* maximum and stops at the first error.
RECURSIVE UpstreamModTime(_, _, _, _)
UpstreamModTime(upstream, r, times, files) ==
    IF upstream = <<>> THEN Ok(r)
    ELSE LET t == PrerequisiteTime(Head(upstream), times, files) IN
         IF t.kind # "Ok" THEN t
         ELSE IF t.time = None THEN UpstreamModTime(Tail(upstream), r, times, files)
         ELSE UpstreamModTime(Tail(upstream),
                              IF r # None THEN Some(Max(t.time[1], r[1])) ELSE t.time,
                              times, files)

\* Lines 774-788: the time of one target; only NotFound means "no time".
TargetTime(target, files) ==
    IF files[target].st = "Present" THEN Ok(Some(files[target].mtime))
    ELSE IF files[target].st = "Missing" THEN Ok(None)
    ELSE IF files[target].st = "NoMtime" THEN Err("NoLastModifiedTime")
    ELSE Err("IoError")

\* A fold that forgets a missing target: None joined with a time gives the
\* time instead of None.
RECURSIVE TargetModTimeFoldLenient(_, _, _)
TargetModTimeFoldLenient(targets, r, files) ==
    IF targets = <<>> THEN Ok(r)
    ELSE LET t == TargetTime(Head(targets), files) IN
         IF t.kind # "Ok" THEN t
         ELSE TargetModTimeFoldLenient(
                  Tail(targets),
                  Some(IF r # None
                       THEN IF r[1] = None THEN t.time
                            ELSE IF t.time = None THEN r[1]
                            ELSE Some(Max(t.time[1], r[1][1]))
                       ELSE t.time),
                  files)

\* Lines 789-799: the fold over the targets; r is an Option<Option<time>>.
RECURSIVE TargetModTimeFold(_, _, _)
TargetModTimeFold(targets, r, files) ==
    IF targets = <<>> THEN Ok(r)
    ELSE LET t == TargetTime(Head(targets), files) IN
         IF t.kind # "Ok" THEN t
         ELSE TargetModTimeFold(
                  Tail(targets),
                  Some(IF r # None
                       THEN IF r[1] = None \/ t.time = None THEN None
                            ELSE Some(Max(t.time[1], r[1][1]))
                       ELSE t.time),
                  files)

\* Lines 771-804: time.unwrap_or(None).
TargetModTime(targets, files) ==
    LET folded == TargetModTimeFold(targets, None, files) IN
    IF folded.kind # "Ok" THEN folded
    ELSE Ok(IF folded.time = None THEN None ELSE folded.time[1])

\* A decision that records now for every task, stale or fresh.
DecideRecordsNow(target_mod_time, upstream_mod_time) ==
    IF target_mod_time = None THEN [mod_time |-> Some(Now), stale |-> TRUE]
    ELSE IF upstream_mod_time = None
         THEN [mod_time |-> Some(Now), stale |-> FALSE]
    ELSE IF upstream_mod_time[1] > target_mod_time[1]
         THEN [mod_time |-> Some(Now), stale |-> TRUE]
    ELSE [mod_time |-> Some(Now), stale |-> FALSE]

\* A decision that also rebuilds on equal times (>= in place of >).
DecideGe(target_mod_time, upstream_mod_time) ==
    IF target_mod_time = None THEN [mod_time |-> Some(Now), stale |-> TRUE]
    ELSE IF upstream_mod_time = None
         THEN [mod_time |-> target_mod_time, stale |-> FALSE]
    ELSE IF upstream_mod_time[1] >= target_mod_time[1]
         THEN [mod_time |-> Some(Now), stale |-> TRUE]
    ELSE [mod_time |-> target_mod_time, stale |-> FALSE]

\* A decision that records the target time as it is, None for a task
\* without a target time.
DecideRecordsTarget(target_mod_time, upstream_mod_time) ==
    IF target_mod_time = None THEN [mod_time |-> None, stale |-> TRUE]
    ELSE IF upstream_mod_time = None
         THEN [mod_time |-> target_mod_time, stale |-> FALSE]
    ELSE IF upstream_mod_time[1] > target_mod_time[1]
         THEN [mod_time |-> Some(Now), stale |-> TRUE]
    ELSE [mod_time |-> target_mod_time, stale |-> FALSE]

\* Lines 806-816: the recorded time and whether the task is returned.
Decide(target_mod_time, upstream_mod_time) ==
    IF target_mod_time = None THEN [mod_time |-> Some(Now), stale |-> TRUE]
    ELSE IF upstream_mod_time = None
         THEN [mod_time |-> target_mod_time, stale |-> FALSE]
    ELSE IF upstream_mod_time[1] > target_mod_time[1]
         THEN [mod_time |-> Some(Now), stale |-> TRUE]
    ELSE [mod_time |-> target_mod_time, stale |-> FALSE]

\* The closure of lines 734-821 for one task: the upstream time first, the
\* target time only if that gave no error.
Evaluate(task, times, files) ==
    LET upstream_mod_time == UpstreamModTime(task.upstream, None, times, files) IN
    IF upstream_mod_time.kind # "Ok" THEN upstream_mod_time
    ELSE LET target_mod_time == TargetModTime(task.targets, files) IN
         IF target_mod_time.kind # "Ok" THEN target_mod_time
         ELSE Ok(Decide(target_mod_time.time, upstream_mod_time.time))

NoResult == [kind |-> "None", err |-> "", list |-> <<>>]

\* No command has run yet (main.rs, before the loop of lines 66-70).
NotBuilt == [ran |-> {}, wrote |-> {}]

\* No library call is under way.
NoCall == [op |-> "none"]

\* ------------------------------------------------------------------ inputs

\* What the front-end may pass to add_task for the next task of a Unit, the
\* task with index j.  Task j produces the path <<j + 1>> (and
\* <<j + 1, j + 1>> as a second target).  A Named prerequisite <<p>> with p
\* in 1..MaxTasks is the target of task p - 1 if that task is ever added and
\* an external file otherwise, so prerequisites may name tasks declared
\* later or the task itself; <<0>> is always an external file.  A Handle
\* prerequisite is one of the handles the previous add_task call returned.
Names == {<<p>> : p \in 1..MaxTasks}

NoPrerequisites == [consumes |-> <<>>, depends_on |-> <<>>, not_before |-> <<>>]

ReturnedHandles(unit) ==
    IF unit.tasks = <<>> THEN {}
    ELSE Range(TargetSpecHandles(Len(unit.tasks) - 1,
                                 Len(unit.tasks[Len(unit.tasks)].targets)))

\* The name of the previous task's first target (an external file for the
\* first task of the Unit).
Previous(unit) == <<Len(unit.tasks)>>

PrerequisiteChoices(unit) ==
    {NoPrerequisites}
    \cup {[NoPrerequisites EXCEPT !.consumes = <<NamedSpec(n, FALSE)>>] : n \in Names}
    \cup {[NoPrerequisites EXCEPT !.consumes =
              <<NamedSpec(<<pq[1]>>, FALSE), NamedSpec(<<pq[2]>>, FALSE)>>] :
            pq \in {x \in (1..MaxTasks) \X (1..MaxTasks) : x[1] < x[2]}}
    \cup {[NoPrerequisites EXCEPT !.consumes =
              <<NamedSpec(Previous(unit), FALSE), NamedSpec(Previous(unit), FALSE)>>],
          [NoPrerequisites EXCEPT !.depends_on = <<NamedSpec(Previous(unit), TRUE)>>],
          [NoPrerequisites EXCEPT !.not_before = <<NamedSpec(Previous(unit), FALSE)>>]}
    \cup {[NoPrerequisites EXCEPT !.consumes = <<h>>] : h \in ReturnedHandles(unit)}

TaskChoices(unit) ==
    LET j == Len(unit.tasks) IN
    {[targets |-> <<<<j + 1>>>>] @@ p : p \in PrerequisiteChoices(unit)}
    \cup {[targets |-> <<>>] @@ NoPrerequisites,
          [targets |-> <<<<j + 1>>, <<j + 1, j + 1>>>>]
          @@ [NoPrerequisites EXCEPT !.consumes = <<NamedSpec(Previous(unit), FALSE)>>]}

\* ----------------------------------------------------------------- actions

InitEngine ==
    /\ units = <<NewUnit>>
    /\ tasks = <<>>
    /\ pc = "build"
    /\ fs = [f \in {} |-> Missing]
    /\ modification_times = <<>>
    /\ stale = <<>>
    /\ result = NoResult
    /\ run = 1
    /\ built = NotBuilt

Init ==
    /\ InitEngine
    /\ call = NoCall

\* UnitBuilder::add_task on the Unit being built.
AddTask ==
    /\ pc = "build"
    /\ Len(units[Len(units)].tasks) < MaxTasks
    /\ \E c \in TaskChoices(units[Len(units)]) :
          units' = [units EXCEPT ![Len(units)] =
                       UnitAddTask(@, c.targets, c.consumes, c.depends_on, c.not_before)]
    /\ UNCHANGED <<tasks, pc, fs, modification_times, stale, result, run, built, call>>

\* TaskList::new on the gathered Units.
New ==
    /\ pc = "build"
    /\ IF NewPanics(units)
       THEN tasks' = <<>> /\ pc' = "panic"
       ELSE tasks' = TaskListNew(units) /\ pc' = "planned"
    /\ UNCHANGED <<units, fs, modification_times, stale, result, run, built, call>>

\* retain_out_of_date, lines 726-728: the call starts with no record.
Begin ==
    /\ pc = "planned"
    /\ pc' = "eval"
    /\ modification_times' = <<>>
    /\ stale' = <<>>
    /\ UNCHANGED <<units, tasks, fs, result, run, built, call>>

\* An evaluation that pairs a stale task with the handle of its index before
\* the ordering instead of its index in the task list.
EvalTaskSpecIndex ==
    /\ pc = "eval"
    /\ Len(modification_times) < Len(tasks)
    /\ LET index == Len(modification_times)
           task == At(tasks, index)
       IN \E found \in [TaskFiles(task) \ DOMAIN fs -> FileStates] :
             LET files == found @@ fs
                 r == Evaluate(task, modification_times, files)
             IN /\ fs' = files
                /\ IF r.kind = "Ok"
                   THEN /\ modification_times' = Append(modification_times, r.time.mod_time)
                        /\ stale' = IF r.time.stale
                                    THEN Append(stale, [handle |-> task.id, task |-> task])
                                    ELSE stale
                        /\ UNCHANGED <<pc, result>>
                   ELSE /\ result' = [kind |-> r.kind, err |-> r.err, list |-> <<>>]
                        /\ stale' = <<>>
                        /\ pc' = "done"
                        /\ UNCHANGED modification_times
    /\ UNCHANGED <<units, tasks, run, built, call>>

\* An evaluation whose error keeps the pairs collected before it.
EvalTaskKeepsPairs ==
    /\ pc = "eval"
    /\ Len(modification_times) < Len(tasks)
    /\ LET index == Len(modification_times)
           task == At(tasks, index)
       IN \E found \in [TaskFiles(task) \ DOMAIN fs -> FileStates] :
             LET files == found @@ fs
                 r == Evaluate(task, modification_times, files)
             IN /\ fs' = files
                /\ IF r.kind = "Ok"
                   THEN /\ modification_times' = Append(modification_times, r.time.mod_time)
                        /\ stale' = IF r.time.stale
                                    THEN Append(stale, [handle |-> index, task |-> task])
                                    ELSE stale
                        /\ UNCHANGED <<pc, result>>
                   ELSE /\ result' = [kind |-> r.kind, err |-> r.err, list |-> stale]
                        /\ pc' = "done"
                        /\ UNCHANGED <<modification_times, stale>>
    /\ UNCHANGED <<units, tasks, run, built, call>>

\* retain_out_of_date, one call of the filter_map closure (lines 734-821) on
\* the next task of the list.  The files it looks at for the first time are
\* found in any state.  An error ends the collect with that error and drops
\* the pairs collected so far; so does a panic.
EvalTask ==
    /\ pc = "eval"
    /\ Len(modification_times) < Len(tasks)
    /\ LET index == Len(modification_times)
           task == At(tasks, index)
       IN \E found \in [TaskFiles(task) \ DOMAIN fs -> FileStates] :
             LET files == found @@ fs
                 r == Evaluate(task, modification_times, files)
             IN /\ fs' = files
                /\ IF r.kind = "Ok"
                   THEN /\ modification_times' = Append(modification_times, r.time.mod_time)
                        /\ stale' = IF r.time.stale
                                    THEN Append(stale, [handle |-> index, task |-> task])
                                    ELSE stale
                        /\ UNCHANGED <<pc, result>>
                   ELSE /\ result' = [kind |-> r.kind, err |-> r.err, list |-> <<>>]
                        /\ stale' = <<>>
                        /\ pc' = "done"
                        /\ UNCHANGED modification_times
    /\ UNCHANGED <<units, tasks, run, built, call>>

\* retain_out_of_date, line 823: every task was evaluated, collect is Ok.
Return ==
    /\ pc = "eval"
    /\ Len(modification_times) = Len(tasks)
    /\ result' = [kind |-> "Ok", err |-> "", list |-> stale]
    /\ pc' = "done"
    /\ UNCHANGED <<units, tasks, fs, modification_times, stale, run, built, call>>

\* The time at which the k-th command of the run loop writes its targets:
\* after retain_out_of_date took its now, one command after the other.
BuildTime(k) == MaxTime + 1 + k

\* The files after the commands of the tasks list[k], k in wrote, have
\* written every target of their task.
RECURSIVE WriteTargets(_, _, _, _)
WriteTargets(files, list, wrote, k) ==
    IF k > Len(list) THEN files
    ELSE WriteTargets(
             IF k \in wrote
             THEN [f \in DOMAIN files |->
                      IF f \in Range(list[k].task.targets) THEN Present(BuildTime(k))
                      ELSE files[f]]
             ELSE files,
             list, wrote, k + 1)

\* main.rs, lines 66-70: the command of every stale task is spawned and
\* waited for, in list order.  The exit status is not looked at, so a
\* command that does not write its targets does not stop the loop; here at
\* most one command (the one at place skip) leaves its targets as they were.
RunCommands ==
    /\ pc = "done"
    /\ run = 1
    /\ result.kind = "Ok"
    /\ \E skip \in 0..Len(result.list) :
          LET wrote == (1..Len(result.list)) \ {skip} IN
          /\ built' = [ran |-> 1..Len(result.list), wrote |-> wrote]
          /\ fs' = WriteTargets(fs, result.list, wrote, 1)
    /\ pc' = "built"
    /\ UNCHANGED <<units, tasks, modification_times, stale, result, run, call>>

\* The program is started a second time on the same Units and files:
\* TaskList::new gives the same list, retain_out_of_date starts afresh.
Again ==
    /\ pc = "built"
    /\ run' = 2
    /\ pc' = "eval"
    /\ modification_times' = <<>>
    /\ stale' = <<>>
    /\ result' = NoResult
    /\ UNCHANGED <<units, tasks, fs, built, call>>

Next == AddTask \/ New \/ Begin \/ EvalTask \/ Return

\* The engine: build a Unit, plan it, evaluate staleness.
Spec == Init /\ [][Next]_vars

\* The graph builder alone.
NextNew == AddTask \/ New

SpecNew == Init /\ [][NextNew]_vars

\* The engine on Units of at most MaxStaleTasks tasks.
AddFewTasks == Len(units[Len(units)].tasks) < MaxStaleTasks /\ AddTask

NextStale == AddFewTasks \/ New \/ Begin \/ EvalTask \/ Return

SpecStale == Init /\ [][NextStale]_vars

\* Two invocations of the program in a row, on Units of at most
\* MaxStaleTasks tasks.
NextTwice == AddFewTasks \/ New \/ Begin \/ EvalTask \/ Return \/ RunCommands \/ Again

SpecTwice == Init /\ [][NextTwice]_vars

\* ---------------------------------------------------- tasks without targets

\* add_task for a task that produces nothing: without prerequisites, with
\* an external file, with the previous task's target by name, or with a
\* handle the previous add_task call returned.
PhonyTaskChoices(unit) ==
    {[targets |-> <<>>] @@ p :
        p \in {NoPrerequisites,
               [NoPrerequisites EXCEPT !.consumes = <<NamedSpec(<<0>>, FALSE)>>],
               [NoPrerequisites EXCEPT !.depends_on = <<NamedSpec(Previous(unit), TRUE)>>]}
              \cup {[NoPrerequisites EXCEPT !.consumes = <<h>>] : h \in ReturnedHandles(unit)}}

\* add_task for a task that produces the path <<j + 1>>, from nothing or
\* from an external file.
ProducerTaskChoices(unit) ==
    {[targets |-> <<<<Len(unit.tasks) + 1>>>>] @@ p :
        p \in {NoPrerequisites,
               [NoPrerequisites EXCEPT !.consumes = <<NamedSpec(<<0>>, FALSE)>>]}}

\* The front-end adds a task with or without targets, on Units of at most
\* MaxStaleTasks tasks.
AddPhonyTask ==
    /\ pc = "build"
    /\ Len(units[Len(units)].tasks) < MaxStaleTasks
    /\ \E c \in ProducerTaskChoices(units[Len(units)])
                 \cup PhonyTaskChoices(units[Len(units)]) :
          units' = [units EXCEPT ![Len(units)] =
                       UnitAddTask(@, c.targets, c.consumes, c.depends_on, c.not_before)]
    /\ UNCHANGED <<tasks, pc, fs, modification_times, stale, result, run, built, call>>

NextPhony == AddPhonyTask \/ New \/ Begin \/ EvalTask \/ Return

SpecPhony == Init /\ [][NextPhony]_vars

\* ------------------------------------------------------------ several Units

\* The tasks of all Units so far.
TotalTasks(us) == Len(FlattenSpecs(us, 0))

\* What a front-end may pass to add_task for the next task of the last
\* Unit, the task with index j among the tasks of all Units.  Task j
\* produces the path <<j + 1>>, so every task has targets of its own.
FusedTaskChoices(us) ==
    LET unit == us[Len(us)]
        j == TotalTasks(us)
        one == <<<<j + 1>>>>
    IN {[targets |-> one] @@ NoPrerequisites,
        [targets |-> <<<<j + 1>>, <<j + 1, j + 1>>>>] @@ NoPrerequisites,
        [targets |-> one]
            @@ [NoPrerequisites EXCEPT !.consumes =
                   <<NamedSpec(<<0>>, FALSE), NamedSpec(<<j>>, FALSE)>>],
        [targets |-> one]
            @@ [NoPrerequisites EXCEPT !.depends_on = <<NamedSpec(<<j>>, TRUE)>>,
                                       !.not_before = <<NamedSpec(<<1>>, FALSE)>>]}
       \cup {[targets |-> one] @@ [NoPrerequisites EXCEPT !.consumes = <<h>>] :
                h \in ReturnedHandles(unit)}

\* UnitBuilder::add_task on the last Unit.
AddTaskFused ==
    /\ pc = "build"
    /\ TotalTasks(units) < MaxTasks
    /\ \E c \in FusedTaskChoices(units) :
          units' = [units EXCEPT ![Len(units)] =
                       UnitAddTask(@, c.targets, c.consumes, c.depends_on, c.not_before)]
    /\ UNCHANGED <<tasks, pc, fs, modification_times, stale, result, run, built, call>>

\* A header file, named by dependency fragments only.
Header == <<0, 0>>

\* UnitBuilder::add_prerequisite on the last Unit (lines 456-464): a pair
\* read from a dependency fragment.
AddPrerequisite ==
    /\ pc = "build"
    /\ Len(FlattenPrerequisites(units)) < MaxPairs
    /\ \E target \in {<<1>>, <<2>>} :
          units' = [units EXCEPT ![Len(units)] = UnitAddPrerequisite(@, target, Header)]
    /\ UNCHANGED <<tasks, pc, fs, modification_times, stale, result, run, built, call>>

\* Engine::parse_unit starts the next Unit of the list (lines 939, 957).
StartUnit ==
    /\ pc = "build"
    /\ Len(units) < MaxUnits
    /\ units[Len(units)].tasks # <<>>
    /\ units' = Append(units, NewUnit)
    /\ UNCHANGED <<tasks, pc, fs, modification_times, stale, result, run, built, call>>

NextFuse == AddTaskFused \/ AddPrerequisite \/ StartUnit \/ New

\* The graph builder on several Units with dependency fragments.
SpecFuse == Init /\ [][NextFuse]_vars

\* ------------------------------------------------------------ relativiser

\* The value of a library call: not made yet, returned, or failed.
Pending == [kind |-> "Pending", value |-> <<>>, err |-> ""]

Value(v) == [kind |-> "Ok", value |-> v, err |-> ""]

Failure(err) == [kind |-> "Err", value |-> <<>>, err |-> err]

\* A path is the sequence of its segments: "/" (the root, first segment of
\* an absolute path only), "..", "." and plain names.
IsAbsolute(path) == path # <<>> /\ path[1] = "/"

\* PathBuf::join / PathBuf::push: an absolute argument replaces the path.
PathJoin(base, path) == IF IsAbsolute(path) THEN path ELSE base \o path

\* Path::components: a "." is yielded only as the first segment.
Components(path) ==
    Unwrap(SelectSeq([i \in 1..Len(path) |->
                         IF path[i] = "." /\ i > 1 THEN None ELSE Some(path[i])],
                     LAMBDA o : o # None))

\* relativiser.rs lines 31-42: "." is dropped, ".." pops the last component
\* (Underflow if there is none), anything else is pushed.
RECURSIVE Normalise(_, _)
Normalise(todo, components) ==
    IF todo = <<>> THEN Value(components)
    ELSE IF Head(todo) = "." THEN Normalise(Tail(todo), components)
    ELSE IF Head(todo) = ".."
         THEN IF components = <<>> THEN Failure("Underflow")
              ELSE Normalise(Tail(todo), SubSeq(components, 1, Len(components) - 1))
    ELSE Normalise(Tail(todo), Append(components, Head(todo)))

\* Lines 44-49: the number of leading components shared with the context.
RECURSIVE SharedComponentIndex(_, _, _)
SharedComponentIndex(components, context, i) ==
    IF /\ i < Len(components) /\ i < Len(context)
       /\ At(components, i) = At(context, i)
    THEN SharedComponentIndex(components, context, i + 1)
    ELSE i

\* Lines 58-61: push the components from index c on.
RECURSIVE PushFrom(_, _, _)
PushFrom(path, components, c) ==
    IF c >= Len(components) THEN path
    ELSE PushFrom(PathJoin(path, <<At(components, c)>>), components, c + 1)

\* Lines 51-63 with the backward walk counting the shared components
\* instead of the context components that are not shared.
BuildPathBackShared(components, context) ==
    LET shared == SharedComponentIndex(components, context, 0) IN
    PushFrom([i \in 1..shared |-> ".."], components, shared)

\* Lines 44-63: one ".." for every context component that is not shared,
\* then the components that are not shared.
BuildPath(components, context) ==
    LET shared == SharedComponentIndex(components, context, 0) IN
    PushFrom([i \in 1..(Len(context) - shared) |-> ".."], components, shared)

\* Relativiser::relativise (lines 18-64) of a Relativiser with this base.
Relativise(context, base, path) ==
    LET abs == PathJoin(base, path)
        components == Normalise(Components(abs), <<>>)
    IN IF components.kind # "Ok" THEN components
       ELSE Value(BuildPath(components.value, context))

\* The paths, base directories and contexts tried.
Segments == {"..", ".", "a", "b"}

RelativePaths == UNION {[1..n -> Segments] : n \in 0..MaxPathLen}

Paths == RelativePaths \cup {<<"/">> \o p : p \in RelativePaths}

\* A context is what Path::components gives for a canonical absolute path.
Contexts == {<<"/">>, <<"/", "a">>, <<"/", "a", "b">>}

\* The directory of a root unit is the context; that of a sub-unit is the
\* parent of its relativised file name, a path relative to the context.
Bases == Contexts \cup {<<"/", "b">>, <<>>, <<"a">>, <<"..">>}

RelativiseCalls ==
    {[op |-> "relativise", context |-> c, base |-> b, path |-> p,
      first |-> Pending, second |-> Pending] :
        c \in Contexts, b \in Bases, p \in Paths}

InitRelativise ==
    /\ InitEngine
    /\ call \in RelativiseCalls

\* relativise(context, path).
RelativiseFirst ==
    /\ call.op = "relativise"
    /\ call.first = Pending
    /\ call' = [call EXCEPT !.first = Relativise(call.context, call.base, call.path)]
    /\ UNCHANGED engine

\* relativise(context, r) for the path r the first call returned.
RelativiseSecond ==
    /\ call.op = "relativise"
    /\ call.first.kind = "Ok"
    /\ call.second = Pending
    /\ call' = [call EXCEPT !.second =
                    Relativise(call.context, call.base, call.first.value)]
    /\ UNCHANGED engine

NextRelativise == RelativiseFirst \/ RelativiseSecond

SpecRelativise == InitRelativise /\ [][NextRelativise]_vars

\* -------------------------------------------------------- Unit::decompose

\* unit.rs TaskSpec::new with its targets: one entry of Unit.tasks.
UnitTask(targets, consumes, depends_on, not_before, aggregate, env, recipe) ==
    [targets |-> targets, consumes |-> consumes, depends_on |-> depends_on,
     not_before |-> not_before, aggregate |-> aggregate, env |-> env,
     recipe |-> recipe]

\* The fan-out of unit.rs lines 223-236 that leaves aggregate as it was.
FanOutKeepsFlag(task) ==
    [i \in 1..Len(task.consumes) |->
        UnitTask(task.targets, <<task.consumes[i]>>, task.depends_on,
                 task.not_before, task.aggregate, task.env, task.recipe)]

\* unit.rs lines 223-236: one task per consumed input.
FanOut(task) ==
    [i \in 1..Len(task.consumes) |->
        UnitTask(task.targets, <<task.consumes[i]>>, task.depends_on,
                 task.not_before, TRUE, task.env, task.recipe)]

\* unit.rs lines 219-238: the TaskSet of one task.
DecomposeTask(task) ==
    IF task.aggregate \/ Len(task.consumes) <= 1 THEN <<task>>
    ELSE FanOut(task)

\* Unit::decompose (unit.rs lines 213-240): one TaskSet per task, in order.
Decompose(unit_tasks) == [k \in 1..Len(unit_tasks) |-> DecomposeTask(unit_tasks[k])]

\* The tasks tried: up to MaxConsumes inputs, named or by handle.
ConsumeChoices ==
    UNION {[1..n -> {NamedSpec(<<1>>, FALSE), HandleSpec(0, 0)}] : n \in 0..MaxConsumes}

UnitTaskChoices ==
    {UnitTask(<<<<9>>>>, c, d, <<NamedSpec(<<3>>, FALSE)>>, a, <<"CC">>, <<"cc", "$<">>) :
        c \in ConsumeChoices,
        d \in {<<>>, <<NamedSpec(<<2>>, TRUE)>>},
        a \in BOOLEAN}

DecomposeCalls ==
    {[op |-> "decompose", tasks |-> t, out |-> Pending] :
        t \in UNION {[1..n -> UnitTaskChoices] : n \in 1..2}}

InitDecompose ==
    /\ InitEngine
    /\ call \in DecomposeCalls

\* unit.decompose().
DecomposeCall ==
    /\ call.op = "decompose"
    /\ call.out = Pending
    /\ call' = [call EXCEPT !.out = Value(Decompose(call.tasks))]
    /\ UNCHANGED engine

NextDecompose == DecomposeCall

SpecDecompose == InitDecompose /\ [][NextDecompose]_vars

\* PrerequisiteSpec::resolve (unit.rs lines 14-23) with
\* TargetSpecHandle::resolve (lines 39-44): a handle's task_index is moved
\* by the offset, a Named prerequisite is kept.
ResolvePrerequisiteSpec(ps, offset) ==
    IF ps.kind = "Handle" THEN HandleSpec(ps.task_index + offset, ps.target_index)
    ELSE ps

\* TaskSpec::resolve (unit.rs lines 125-140).
ResolveTaskSpec(task, offset) ==
    LET res(list) == [i \in 1..Len(list) |-> ResolvePrerequisiteSpec(list[i], offset)]
    IN [task EXCEPT !.consumes = res(task.consumes),
                    !.depends_on = res(task.depends_on),
                    !.not_before = res(task.not_before)]

\* Stage 1 of the graph builder as the specification words it: the
\* decomposed tasks of a Unit are concatenated behind the task_offset tasks
\* of the Units before it, and a local handle is resolved to the global
\* index task_offset + local task index.  from is the index the task had in
\* the Unit when add_task returned its handles; index is the task's place
\* in the fused list.
FuseSets(sets, task_offset) ==
    LET flat == Concat([k \in 1..Len(sets) |->
                          [i \in 1..Len(sets[k]) |-> [from |-> k - 1, task |-> sets[k][i]]]])
    IN [i \in 1..Len(flat) |->
           [from |-> flat[i].from,
            index |-> task_offset + i - 1,
            task |-> ResolveTaskSpec(flat[i].task, task_offset)]]

\* The Unit is fused behind the Units gathered before it.
FuseCall ==
    /\ call.op = "decompose"
    /\ call.out # Pending
    /\ \E task_offset \in 0..MaxUnits :
          call' = [op |-> "fuse", tasks |-> call.tasks, task_offset |-> task_offset,
                   out |-> Value(FuseSets(call.out.value, task_offset))]
    /\ UNCHANGED engine

NextFuseSets == DecomposeCall \/ FuseCall

\* A Unit is decomposed and fused.
SpecFuseSets == InitDecompose /\ [][NextFuseSets]_vars

\* ------------------------------------------------- Engine::gather_units

\* A unit file: its path without the extension, and its extension.
File(stem, ext) == [stem |-> stem, ext |-> ext]

\* Line 918: context.join("asmbl").with_extension(ext).
RootFile(ext) == File("asmbl", ext)

\* The extensions front-ends are registered for.
Exts == {"lua", "mk"}

\* Two sub-unit files below the context; the second needs the "mk" front-end.
SubA == File("a/asmbl", "lua")

SubB == File("b/asmbl", "mk")

Files == {RootFile(e) : e \in Exts} \cup {SubA, SubB}

\* What frontend.parse_unit makes of a file: a Unit, ParseUnitError::NotFound
\* or another ParseUnitError.
ParseStates == {"Ok", "NotFound", "Invalid"}

SubUnit(file, optional) == [file |-> file, optional |-> optional]

\* The sub_units a Unit may declare, in declaration order.
SubUnitLists(files, most) ==
    UNION {[1..n -> {SubUnit(f, o) : f \in files, o \in BOOLEAN}] : n \in 0..most}

\* The unit files on disk: no file declares a file that declares it.
Disks ==
    {(RootFile("lua") :> [state |-> s1, sub_units |-> u1])
        @@ (RootFile("mk") :> [state |-> s2, sub_units |-> u2])
        @@ (SubA :> [state |-> s3, sub_units |-> u3])
        @@ (SubB :> [state |-> s4, sub_units |-> <<>>]) :
        s1 \in ParseStates, s2 \in ParseStates, s3 \in ParseStates,
        s4 \in ParseStates,
        u1 \in SubUnitLists({SubA, SubB}, MaxSubUnits),
        u2 \in {<<>>, <<SubUnit(SubA, FALSE)>>},
        u3 \in SubUnitLists({SubB}, 1)}

RECURSIVE ParseUnit(_, _, _, _, _)
RECURSIVE ParseUnitPushFirst(_, _, _, _, _)
RECURSIVE ParseSubUnits(_, _, _, _)

\* parse_unit with line 957 moved before the loop of lines 944-955.
ParseUnitPushFirst(frontends, disk, file, optional, list) ==
    IF disk[file].state = "Ok"
    THEN ParseSubUnits(frontends, disk, disk[file].sub_units, Append(list, file))
    ELSE IF disk[file].state = "NotFound" /\ optional THEN Value(list)
    ELSE Failure("ParseError")

\* Engine::parse_unit (lines 929-971).  A Unit of the list is written as the
\* file it was parsed from.
ParseUnit(frontends, disk, file, optional, list) ==
    IF disk[file].state = "Ok"
    THEN LET r == ParseSubUnits(frontends, disk, disk[file].sub_units, list)
         IN IF r.kind = "Ok" THEN Value(Append(r.value, file)) ELSE r
    ELSE IF disk[file].state = "NotFound" /\ optional THEN Value(list)
    ELSE Failure("ParseError")

\* Lines 944-955: the loop over unit.sub_units.
ParseSubUnits(frontends, disk, todo, list) ==
    IF todo = <<>> THEN Value(list)
    ELSE IF Head(todo).file.ext \notin frontends THEN Failure("NoFrontEnd")
    ELSE LET r == ParseUnit(frontends, disk, Head(todo).file,
                            Head(todo).optional, list)
         IN IF r.kind = "Ok"
            THEN ParseSubUnits(frontends, disk, Tail(todo), r.value)
            ELSE r

\* Lines 917-926: the loop over self.frontends.iter(), which visits the
\* keys in the sequence order.
RECURSIVE GatherUnits(_, _, _)
GatherUnits(order, frontends, disk) ==
    IF order = <<>> THEN [root |-> None, out |-> Failure("NoRootUnit")]
    ELSE IF disk[RootFile(Head(order))].state # "NotFound"
    THEN [root |-> Some(RootFile(Head(order))),
          out |-> ParseUnit(frontends, disk, RootFile(Head(order)), FALSE, <<>>)]
    ELSE GatherUnits(Tail(order), frontends, disk)

\* The orders in which a HashMap with these keys may be iterated.
IterationOrders(keys) ==
    {o \in [1..Cardinality(keys) -> keys] :
        \A i, j \in 1..Cardinality(keys) : o[i] = o[j] => i = j}

\* Engine::new (lines 900-904) in a context holding some unit files.
InitGather ==
    /\ InitEngine
    /\ \E disk \in Disks :
          call = [op |-> "gather", registered |-> <<>>, frontends |-> {},
                  disk |-> disk, root |-> None, out |-> Pending]

\* engine.register_frontend(ext, f) (lines 906-911).  registered keeps the
\* order of the calls; the Engine itself keeps the HashMap only.
RegisterFrontend(ext) ==
    /\ call.op = "gather"
    /\ call.out = Pending
    /\ ext \notin call.frontends
    /\ call' = [call EXCEPT !.registered = Append(@, ext),
                            !.frontends = @ \cup {ext}]
    /\ UNCHANGED engine

\* engine.gather_units(context) (lines 913-927).
Gather ==
    /\ call.op = "gather"
    /\ call.out = Pending
    /\ \E order \in IterationOrders(call.frontends) :
          LET g == GatherUnits(order, call.frontends, call.disk)
          IN call' = [call EXCEPT !.root = g.root, !.out = g.out]
    /\ UNCHANGED engine

NextGather == (\E ext \in Exts : RegisterFrontend(ext)) \/ Gather

SpecGather == InitGather /\ [][NextGather]_vars

\* ---------------------------------------------------- TargetSpec::resolve

\* A string is the sequence of its characters.  "!" stands for a byte
\* sequence that is not UTF-8.
SpecChars == {"%", "f", "a", "/"}

TargetSpecs == UNION {[1..n -> SpecChars] : n \in 0..MaxSpecLen}

\* An input path is the sequence of its components, each a string.
RootDir == <<"/">>

ParentDir == <<".", ".">>

InputNames ==
    {<<"a">>, <<"a", ".", "c">>, <<".", "c">>, <<"a", ".">>,
     <<"a", ".", "!">>, <<"!", ".", "c">>}

Inputs ==
    {None, Some(<<>>), Some(<<RootDir>>), Some(<<<<"d">>, ParentDir>>)}
        \cup {Some(<<<<"d">>, n>>) : n \in InputNames}

Prefixes == {<<>>, <<"d">>, <<"d", "/">>}

\* Path::file_name: the last component when it is a plain name.
FileName(path) ==
    IF path = <<>> \/ path[Len(path)] \in {RootDir, ParentDir} THEN None
    ELSE Some(path[Len(path)])

\* The position of the last "." of a name, 0 when it has none.
LastDot(name) ==
    IF \E i \in 1..Len(name) : name[i] = "."
    THEN CHOOSE i \in 1..Len(name) :
            name[i] = "." /\ \A j \in (i + 1)..Len(name) : name[j] # "."
    ELSE 0

\* Path::file_stem: the name up to its last ".", the whole name when it has
\* no "." or only a leading one.
FileStem(path) ==
    IF FileName(path) = None THEN None
    ELSE LET name == FileName(path)[1]
         IN IF LastDot(name) <= 1 THEN Some(name)
            ELSE Some(SubSeq(name, 1, LastDot(name) - 1))

\* Lines 36-42: input.ok_or(NoInput)?.file_stem().ok_or(NoFileStem)?
\* .to_str().ok_or(NonUnicodeInputPath)?.
InputStem(input) ==
    IF input = None THEN Failure("NoInput")
    ELSE IF FileStem(input[1]) = None THEN Failure("NoFileStem")
    ELSE IF "!" \in Range(FileStem(input[1])[1]) THEN Failure("NonUnicodeInputPath")
    ELSE Value(FileStem(input[1])[1])

RECURSIVE Expand(_, _, _)
RECURSIVE ExpandLenient(_, _, _)

\* The scan of lines 32-51 with an unknown marker character copied.
ExpandLenient(todo, input, path) ==
    IF todo = <<>> THEN Value(path)
    ELSE IF Head(todo) # "%" THEN Expand(Tail(todo), input, Append(path, Head(todo)))
    ELSE IF Len(todo) = 1 THEN Failure("MissingMarkerCharacter")
    ELSE IF todo[2] = "%" THEN Expand(Tail(Tail(todo)), input, Append(path, "%"))
    ELSE IF todo[2] = "f"
    THEN IF InputStem(input).kind = "Ok"
         THEN Expand(Tail(Tail(todo)), input, path \o InputStem(input).value)
         ELSE InputStem(input)
    ELSE Expand(Tail(Tail(todo)), input, Append(path, todo[2]))

\* Lines 32-51: the scan over self.path.chars().
Expand(todo, input, path) ==
    IF todo = <<>> THEN Value(path)
    ELSE IF Head(todo) # "%" THEN Expand(Tail(todo), input, Append(path, Head(todo)))
    ELSE IF Len(todo) = 1 THEN Failure("MissingMarkerCharacter")
    ELSE IF todo[2] = "%" THEN Expand(Tail(Tail(todo)), input, Append(path, "%"))
    ELSE IF todo[2] = "f"
    THEN IF InputStem(input).kind = "Ok"
         THEN Expand(Tail(Tail(todo)), input, path \o InputStem(input).value)
         ELSE InputStem(input)
    ELSE Failure("InvalidMarkerCharacter")

\* PathBuf::push on strings (line 53): an absolute path replaces the prefix,
\* otherwise a separator is put between the two unless the prefix is empty
\* or ends with one.
PathPush(prefix, path) ==
    IF path # <<>> /\ path[1] = "/" THEN path
    ELSE IF prefix = <<>> \/ prefix[Len(prefix)] = "/" THEN prefix \o path
    ELSE prefix \o <<"/">> \o path

\* TargetSpec::resolve (lines 22-57).
Resolve(spec, prefix, input) ==
    IF Expand(spec, input, <<>>).kind = "Ok"
    THEN Value(PathPush(prefix, Expand(spec, input, <<>>).value))
    ELSE Expand(spec, input, <<>>)

ResolveCalls ==
    {[op |-> "resolve", spec |-> sp, prefix |-> pr, input |-> in, out |-> Pending] :
        sp \in TargetSpecs, pr \in Prefixes, in \in Inputs}

InitResolve ==
    /\ InitEngine
    /\ call \in ResolveCalls

\* spec.resolve(prefix, input).
ResolveCall ==
    /\ call.op = "resolve"
    /\ call.out = Pending
    /\ call' = [call EXCEPT !.out = Resolve(call.spec, call.prefix, call.input)]
    /\ UNCHANGED engine

NextResolve == ResolveCall

SpecResolve == InitResolve /\ [][NextResolve]_vars

\* -------------------------------------------------------- Recipe::prepare

\* recipe/mod.rs ArgElement and Variable (lines 8-22).
Str(s) == [kind |-> "Str", s |-> s, index |-> 0]

Input(index) == [kind |-> "Input", s |-> "", index |-> index]

Target(index) == [kind |-> "Target", s |-> "", index |-> index]

AllInputs == [kind |-> "Inputs", s |-> "", index |-> 0]

AllTargets == [kind |-> "Targets", s |-> "", index |-> 0]

Other(name) == [kind |-> "Other", s |-> name, index |-> 0]

Break == [kind |-> "Break", s |-> "", index |-> 0]

\* env.rs EnvSpec::inherit and EnvSpec::define (lines 16-28).
Inherit(name) == [name |-> name, value |-> None]

Define(name, value) == [name |-> name, value |-> Some(value)]

\* RecipePrepareError with its payload.
PrepareError(err, payload) == [kind |-> "Err", value |-> payload, err |-> err]

\* A rendered string is the sequence of the pieces pushed onto it.
\* [&str]::join(" ").
JoinSpace(paths) ==
    Concat([i \in 1..Len(paths) |->
               IF i = 1 THEN <<paths[i]>> ELSE <<" ", paths[i]>>])

RECURSIVE Render(_, _, _, _, _, _)
RECURSIVE RenderLenient(_, _, _, _, _, _)

\* The loop of lines 104-135 with an out-of-range index rendered as nothing.
RenderLenient(todo, targets, inputs, args, arg, open) ==
    IF todo = <<>> THEN Value(IF open THEN Append(args, arg) ELSE args)
    ELSE LET el == Head(todo)
             rest == Tail(todo)
         IN CASE el.kind = "Break" ->
                    Render(rest, targets, inputs, Append(args, arg), <<>>, FALSE)
              [] el.kind = "Str" ->
                    Render(rest, targets, inputs, args, Append(arg, el.s), TRUE)
              [] el.kind = "Input" ->
                    IF el.index >= Len(inputs)
                    THEN Render(rest, targets, inputs, args, arg, TRUE)
                    ELSE Render(rest, targets, inputs, args,
                                Append(arg, At(inputs, el.index)), TRUE)
              [] el.kind = "Target" ->
                    IF el.index >= Len(targets)
                    THEN Render(rest, targets, inputs, args, arg, TRUE)
                    ELSE Render(rest, targets, inputs, args,
                                Append(arg, At(targets, el.index)), TRUE)
              [] el.kind = "Inputs" ->
                    Render(rest, targets, inputs, args, arg \o JoinSpace(inputs), TRUE)
              [] el.kind = "Targets" ->
                    Render(rest, targets, inputs, args, arg \o JoinSpace(targets), TRUE)
              [] el.kind = "Other" -> PrepareError("UnrecognisedBinding", el.s)

\* Lines 102-135: the arguments of the command.  open tells that the inner
\* loop has taken an element since the last Break, so that the argument in
\* hand is still to be pushed when the elements end.
Render(todo, targets, inputs, args, arg, open) ==
    IF todo = <<>> THEN Value(IF open THEN Append(args, arg) ELSE args)
    ELSE LET el == Head(todo)
             rest == Tail(todo)
         IN CASE el.kind = "Break" ->
                    Render(rest, targets, inputs, Append(args, arg), <<>>, FALSE)
              [] el.kind = "Str" ->
                    Render(rest, targets, inputs, args, Append(arg, el.s), TRUE)
              [] el.kind = "Input" ->
                    IF el.index >= Len(inputs)
                    THEN PrepareError("InputIndexOutOfRange", el.index)
                    ELSE Render(rest, targets, inputs, args,
                                Append(arg, At(inputs, el.index)), TRUE)
              [] el.kind = "Target" ->
                    IF el.index >= Len(targets)
                    THEN PrepareError("TargetIndexOutOfRange", el.index)
                    ELSE Render(rest, targets, inputs, args,
                                Append(arg, At(targets, el.index)), TRUE)
              [] el.kind = "Inputs" ->
                    Render(rest, targets, inputs, args, arg \o JoinSpace(inputs), TRUE)
              [] el.kind = "Targets" ->
                    Render(rest, targets, inputs, args, arg \o JoinSpace(targets), TRUE)
              [] el.kind = "Other" -> PrepareError("UnrecognisedBinding", el.s)

\* The environment a Command starts from when env_clear is left out.
EnvKeepParent(parent) == parent

\* Command::env_clear (line 156).
EnvClear(parent) == [n \in {} |-> ""]

\* Lines 157-163: Command::envs over the entries that give a value.
RECURSIVE Envs(_, _, _)
Envs(todo, parent, map) ==
    IF todo = <<>> THEN map
    ELSE LET name == Head(todo).name
             value == IF Head(todo).value = None
                      THEN IF name \in DOMAIN parent THEN Some(parent[name]) ELSE None
                      ELSE Head(todo).value
         IN IF value = None THEN Envs(Tail(todo), parent, map)
            ELSE Envs(Tail(todo), parent,
                      [n \in DOMAIN map \cup {name} |->
                          IF n = name THEN value[1] ELSE map[n]])

\* The commands found as given or on PATH (lines 141-152).
ExistingCmds == {<<"cc">>}

\* Recipe::prepare (lines 85-165).
Prepare(elements, targets, inputs, env, parent) ==
    IF "!" \in Range(targets) \cup Range(inputs)
    THEN PrepareError("NonUnicodePath", "")
    ELSE LET r == Render(elements, targets, inputs, <<>>, <<>>, FALSE)
         IN IF r.kind # "Ok" THEN r
            ELSE IF r.value = <<>> THEN PrepareError("NotEnoughArgs", "")
            ELSE IF Head(r.value) \notin ExistingCmds
            THEN PrepareError("NoSuchCmd", Head(r.value))
            ELSE Value([cmd |-> Head(r.value), args |-> Tail(r.value),
                        env |-> Envs(env, parent, EnvClear(parent))])

Elements ==
    {Str("cc"), AllInputs, AllTargets, Other("x"), Break}
        \cup {Input(i) : i \in 0..MaxIndex}
        \cup {Target(i) : i \in 0..(MaxIndex - 1)}

\* Recipe::new (lines 68-79): at least one argument, each closed by a Break.
Recipes ==
    {r \in UNION {[1..n -> Elements] : n \in 1..MaxElements} : r[Len(r)] = Break}

EnvSpecs ==
    {Inherit("CC"), Define("CC", "gcc"), Inherit("HOME"), Define("HOME", "/r"),
     Define("OPT", "1")}

EnvLists == UNION {[1..n -> EnvSpecs] : n \in 0..MaxEnv}

\* The environment of the asmbl process: LANG is always set.
ParentValues == [CC |-> "clang", HOME |-> "/h", LANG |-> "C"]

ParentEnvs ==
    {[n \in names \cup {"LANG"} |-> ParentValues[n]] : names \in SUBSET {"CC", "HOME"}}

PrepareCalls(recipes, targets, inputs, envs) ==
    {[op |-> "prepare", elements |-> r, targets |-> t, inputs |-> i, env |-> e,
      parent |-> p, out |-> Pending] :
        r \in recipes, t \in targets, i \in inputs, e \in envs, p \in ParentEnvs}

\* A task about to run, with any recipe and paths.
InitPrepare ==
    /\ InitEngine
    /\ call \in PrepareCalls(Recipes, {<<>>, <<"t">>, <<"t", "u">>},
                              {<<>>, <<"a">>, <<"a", "b">>, <<"!">>},
                              {<<>>, <<Inherit("CC")>>})

\* A task about to run, with any EnvSpec list.
InitPrepareEnv ==
    /\ InitEngine
    /\ call \in PrepareCalls({<<Str("cc"), Break>>, <<Str("cc"), Break, AllInputs, Break>>,
                               <<Other("x"), Break>>},
                              {<<"t">>}, {<<"a">>}, EnvLists)

\* task.prepare() (main.rs line 67).
PrepareCall ==
    /\ call.op = "prepare"
    /\ call.out.kind = "Pending"
    /\ call' = [call EXCEPT !.out = Prepare(call.elements, call.targets,
                                            call.inputs, call.env, call.parent)]
    /\ UNCHANGED engine

NextPrepare == PrepareCall

SpecPrepare == InitPrepare /\ [][NextPrepare]_vars

SpecPrepareEnv == InitPrepareEnv /\ [][NextPrepare]_vars

\* --------------------------------------------------------- make fragments

\* make/parser.rs, lines 31-54: a Rule.  idents is a
\* separated_nonempty_list, so a parsed rule has at least one target; the
\* prerequisites are optional (unwrap_or_else(|| vec![])).  The i-th target
\* of a rule written at place r is the name <<"t", r, i>>, its i-th
\* prerequisite the name <<"p", r, i>>.
MakeRule(r, nt, np) ==
    [targets |-> [i \in 1..nt |-> <<"t", r, i>>],
     prerequisites |-> [i \in 1..np |-> <<"p", r, i>>]]

\* The rule lists parse() can return: n rules, each with its own number of
\* targets and prerequisites.
RuleLists ==
    UNION {{[r \in 1..n |-> MakeRule(r, nt[r], np[r])] :
               nt \in [1..n -> 1..MaxRuleIdents], np \in [1..n -> 0..MaxRuleIdents]} :
           n \in 0..MaxRules}

\* make/mod.rs, lines 12-21: Iterator::new.
IteratorNew(rules) ==
    [rules |-> rules, rule_index |-> 0, target_index |-> 0, prerequisites_index |-> 0]

\* A next() that moves to the next target without setting
\* prerequisites_index back to 0.
RECURSIVE IteratorNextNoReset(_)
IteratorNextNoReset(it) ==
    IF it.rule_index >= Len(it.rules) THEN [it |-> it, item |-> None]
    ELSE LET rule == At(it.rules, it.rule_index) IN
         IF it.target_index >= Len(rule.targets)
         THEN IteratorNextNoReset([it EXCEPT !.target_index = 0, !.rule_index = @ + 1])
         ELSE IF it.prerequisites_index >= Len(rule.prerequisites)
         THEN IteratorNextNoReset([it EXCEPT !.target_index = @ + 1])
         ELSE [it |-> [it EXCEPT !.prerequisites_index = @ + 1],
               item |-> Some(<<At(rule.targets, it.target_index),
                               At(rule.prerequisites, it.prerequisites_index)>>)]

\* make/mod.rs, lines 26-51: Iterator::next.  The outer loop returns None
\* past the last rule; the inner loop leaves a rule whose targets are used
\* up, leaves a target whose prerequisites are used up, and returns a pair
\* otherwise.
RECURSIVE IteratorNext(_)
IteratorNext(it) ==
    IF it.rule_index >= Len(it.rules) THEN [it |-> it, item |-> None]
    ELSE LET rule == At(it.rules, it.rule_index) IN
         IF it.target_index >= Len(rule.targets)
         THEN IteratorNext([it EXCEPT !.target_index = 0, !.rule_index = @ + 1])
         ELSE IF it.prerequisites_index >= Len(rule.prerequisites)
         THEN IteratorNext([it EXCEPT !.prerequisites_index = 0, !.target_index = @ + 1])
         ELSE [it |-> [it EXCEPT !.prerequisites_index = @ + 1],
               item |-> Some(<<At(rule.targets, it.target_index),
                               At(rule.prerequisites, it.prerequisites_index)>>)]

\* make/mod.rs, lines 54-56: cake(i) hands the parsed rules to a fresh
\* Iterator.  items is what next() has returned so far, call after call.
InitMake ==
    /\ InitEngine
    /\ call \in {[op |-> "cake", it |-> IteratorNew(rules), items |-> <<>>] :
                    rules \in RuleLists}

\* The number of None items in a sequence of returned items.
Nones(items) == Cardinality({i \in 1..Len(items) : items[i] = None})

\* One call of next() by the user of the iterator.
MakeNext ==
    /\ call.op = "cake"
    /\ Nones(call.items) < MaxNones
    /\ LET r == IteratorNext(call.it)
       IN call' = [call EXCEPT !.it = r.it, !.items = Append(@, r.item)]
    /\ UNCHANGED engine

NextMake == MakeNext

SpecMake == InitMake /\ [][NextMake]_vars

\* ---------------------------------------------------------- recipe parser

\* A string is the sequence of its characters.
\* recipe/parser.rs, lines 8-13: numeric.
Numerals == {"0", "1", "2", "3", "4", "5", "6", "7", "8", "9"}

Numeric(c) == c \in Numerals

LowerCase ==
    {"a", "b", "c", "d", "e", "f", "g", "h", "i", "j", "k", "l", "m",
     "n", "o", "p", "q", "r", "s", "t", "u", "v", "w", "x", "y", "z"}

UpperCase ==
    {"A", "B", "C", "D", "E", "F", "G", "H", "I", "J", "K", "L", "M",
     "N", "O", "P", "Q", "R", "S", "T", "U", "V", "W", "X", "Y", "Z"}

\* Lines 15-20: alphanumeric, which takes '_' and '-' as well.
Alphanumeric(c) == c \in Numerals \cup LowerCase \cup UpperCase \cup {"_", "-"}

\* nom's results: Ok((rest, value)) or Err.
ParseOk(rest, value) == [kind |-> "Ok", rest |-> rest, value |-> value]

ParseError == [kind |-> "Error", rest |-> <<>>, value |-> <<>>]

\* take_while(pred): the length of the longest prefix of i that pred takes.
RECURSIVE TakeNumeric(_)
TakeNumeric(i) ==
    IF i # <<>> /\ Numeric(Head(i)) THEN 1 + TakeNumeric(Tail(i)) ELSE 0

RECURSIVE TakeAlphanumeric(_)
TakeAlphanumeric(i) ==
    IF i # <<>> /\ Alphanumeric(Head(i)) THEN 1 + TakeAlphanumeric(Tail(i)) ELSE 0

DigitValue(c) ==
    CASE c = "0" -> 0 [] c = "1" -> 1 [] c = "2" -> 2 [] c = "3" -> 3 [] c = "4" -> 4
      [] c = "5" -> 5 [] c = "6" -> 6 [] c = "7" -> 7 [] c = "8" -> 8 [] c = "9" -> 9

\* usize::from_str_radix(s, 10) (line 26) on a string of digits; it fails
\* only on a number past usize::MAX, which takes twenty digits.
RECURSIVE FromStrRadix10(_, _)
FromStrRadix10(digits, acc) ==
    IF digits = <<>> THEN acc
    ELSE FromStrRadix10(Tail(digits), acc * 10 + DigitValue(Head(digits)))

\* Lines 22-30: index, a '[', one digit or more, a ']'.
Index(i) ==
    IF i = <<>> \/ Head(i) # "[" THEN ParseError
    ELSE LET n == TakeNumeric(Tail(i)) IN
         IF n = 0 THEN ParseError
         ELSE IF Len(i) < n + 2 \/ i[n + 2] # "]" THEN ParseError
         ELSE ParseOk(SubSeq(i, n + 3, Len(i)), FromStrRadix10(SubSeq(i, 2, n + 1), 0))

\* Lines 32-38: variable_name, the first of "<", "@" and a run of
\* alphanumeric characters that matches.
VariableName(i) ==
    IF i # <<>> /\ Head(i) = "<" THEN ParseOk(Tail(i), <<"<">>)
    ELSE IF i # <<>> /\ Head(i) = "@" THEN ParseOk(Tail(i), <<"@">>)
    ELSE LET n == TakeAlphanumeric(i) IN
         IF n = 0 THEN ParseError
         ELSE ParseOk(SubSeq(i, n + 1, Len(i)), SubSeq(i, 1, n))

\* nom::combinator::opt: an Err of the inner parser is None, nothing taken.
OptIndex(i) ==
    LET r == Index(i) IN
    IF r.kind = "Ok" THEN ParseOk(r.rest, Some(r.value)) ELSE ParseOk(i, None)

NameTargets == <<"t", "a", "r", "g", "e", "t", "s">>

NameInputs == <<"i", "n", "p", "u", "t", "s">>

\* A variable that leaves the index written after another name in the text.
VariableKeepsOtherIndex(i) ==
    IF i = <<>> \/ Head(i) # "$" THEN ParseError
    ELSE LET name == VariableName(Tail(i)) IN
         IF name.kind # "Ok" THEN ParseError
         ELSE LET index == OptIndex(name.rest) IN
              IF name.value \in {<<"@">>, NameTargets}
              THEN ParseOk(index.rest,
                           IF index.value # None THEN Target(index.value[1]) ELSE AllTargets)
              ELSE IF name.value \in {<<"<">>, NameInputs}
              THEN ParseOk(index.rest,
                           IF index.value # None THEN Input(index.value[1]) ELSE AllInputs)
              ELSE ParseOk(name.rest, Other(name.value))

\* Lines 40-58: variable, a '$', a name and an index or none.
Variable(i) ==
    IF i = <<>> \/ Head(i) # "$" THEN ParseError
    ELSE LET name == VariableName(Tail(i)) IN
         IF name.kind # "Ok" THEN ParseError
         ELSE LET index == OptIndex(name.rest) IN
              IF name.value \in {<<"@">>, NameTargets}
              THEN ParseOk(index.rest,
                           IF index.value # None THEN Target(index.value[1]) ELSE AllTargets)
              ELSE IF name.value \in {<<"<">>, NameInputs}
              THEN ParseOk(index.rest,
                           IF index.value # None THEN Input(index.value[1]) ELSE AllInputs)
              ELSE ParseOk(index.rest, Other(name.value))

\* The sequences over S of length lo to hi.
Words(S, lo, hi) == UNION {[1..n -> S] : n \in lo..hi}

\* The names written after the '$': the two symbols, the two keywords, a
\* keyword with a character more or a character less, and short names of
\* the characters alphanumeric takes.
NameChars == {"c", "7", "_", "-"}

VariableNames ==
    {<<"<">>, <<"@">>, NameInputs, NameTargets}
       \cup {kw \o <<c>> : kw \in {NameInputs, NameTargets}, c \in NameChars}
       \cup {SubSeq(kw, 1, Len(kw) - 1) : kw \in {NameInputs, NameTargets}}
       \cup Words(NameChars, 1, MaxNameLen)

\* The digits written between the brackets, or no index at all.
Indices == {None} \cup {Some(d) : d \in Words({"0", "1", "9"}, 1, MaxDigits)}

\* What follows the variable in the argument: nothing, text that is no
\* index, or (where the name cannot run on into it) a letter.
TextsAfter(name, index) ==
    {<<>>, <<" ">>, <<" ", "c">>, <<"$", "<">>, <<"]">>, <<"[">>, <<"[", "]">>,
     <<"[", "1">>, <<"[", "c", "]">>, <<"<">>}
       \cup (IF name \in {<<"<">>, <<"@">>} \/ index # None
              THEN {<<"c">>, <<"7", "]">>} ELSE {})
       \cup (IF index # None THEN {<<"[", "1", "]">>} ELSE {})

\* The text of the variable: '$', the name, the index in brackets.
VariableText(name, index, after) ==
    <<"$">> \o name \o (IF index = None THEN <<>> ELSE <<"[">> \o index[1] \o <<"]">>)
       \o after

\* A call of variable() on the text of a name, an index and what follows.
NewVariableCall(name, index, after) ==
    [op |-> "variable", name |-> name, index |-> index, after |-> after,
     i |-> VariableText(name, index, after), out |-> Pending]

InitVariable ==
    /\ InitEngine
    /\ \E name \in VariableNames : \E index \in Indices :
          \E after \in TextsAfter(name, index) :
             call = NewVariableCall(name, index, after)

\* variable(i).
VariableCall ==
    /\ call.op = "variable"
    /\ call.out.kind = "Pending"
    /\ call' = [call EXCEPT !.out = Variable(call.i)]
    /\ UNCHANGED engine

NextVariable == VariableCall

SpecVariable == InitVariable /\ [][NextVariable]_vars

\* ----------------------------------------------------------- claim helpers

\* The resolved graph TaskList::new orders; a task's id is its index here.
Graph == Unordered(units)

Ids == 0..(Len(Graph) - 1)

\* The tasks whose Handle occurs in the upstream of a task.
UpHandles(task) ==
    {task.upstream[i].index :
        i \in {k \in 1..Len(task.upstream) : task.upstream[k].kind = "Handle"}}

\* The edge u -> d of the resolved graph: d has Handle(u) in its upstream.
Edge(u, d) == u \in UpHandles(At(Graph, d))

Down(S) == {d \in Ids : \E u \in S : Edge(u, d)}

RECURSIVE Closure(_)
Closure(S) == IF Down(S) \subseteq S THEN S ELSE Closure(S \cup Down(S))

AcyclicGraph == \A v \in Ids : v \notin Closure(Down({v}))

LeafIds == {v \in Ids : UpHandles(At(Graph, v)) = {}}

EmittedIds == {tasks[k].id : k \in 1..Len(tasks)}

\* The position in the emitted list of the task with the given id.
Pos(id) == CHOOSE k \in 0..(Len(tasks) - 1) : At(tasks, k).id = id

Planned == pc # "build"

MaxOf(S) == CHOOSE x \in S : \A y \in S : y <= x

\* ------------------------------------------------------------------ claims

\* C1: topological soundness.  For every edge u -> d of the resolved graph
\* whose two tasks are emitted, u stands before d in the emitted list.
\* Stated for acyclic graphs, where the claim is at its weakest: no order
\* can put a task on a dependency cycle before itself.
C1_TopologicalSoundness ==
    (Planned /\ AcyclicGraph) =>
        \A u \in EmittedIds, d \in EmittedIds : Edge(u, d) => Pos(u) < Pos(d)

\* C2: every task that can be reached from a leaf task by following
\* downstream edges appears in the emitted list.
C2_ReachableFromLeafEmitted ==
    Planned => Closure(LeafIds) \subseteq EmittedIds

\* C3: no task appears more than once in the emitted list.
C3_NoDuplicates ==
    \A i \in 1..Len(tasks), j \in 1..Len(tasks) : tasks[i].id = tasks[j].id => i = j

\* C3 witness: a list was emitted in which one task is listed twice in the
\* downstream list of an emitted task, and one emitted task is the
\* downstream of two different emitted tasks.
C3_Witness ==
    /\ Planned
    /\ \E k \in 1..Len(tasks) : \E a \in 1..Len(tasks[k].downstream) :
          \E b \in 1..Len(tasks[k].downstream) :
             /\ a # b
             /\ tasks[k].downstream[a] = tasks[k].downstream[b]
             /\ tasks[k].downstream[a] \in EmittedIds
    /\ \E d \in EmittedIds, u \in EmittedIds, v \in EmittedIds :
          u # v /\ Edge(u, d) /\ Edge(v, d)

\* C7: every Handle stored in a task of the emitted list, in upstream or in
\* downstream, is smaller than the number of emitted tasks.
C7_HandlesValid ==
    Planned =>
        \A k \in 1..Len(tasks) :
            /\ \A h \in UpHandles(tasks[k]) : h < Len(tasks)
            /\ \A i \in 1..Len(tasks[k].downstream) :
                  tasks[k].downstream[i] < Len(tasks)

\* ------------------------------------------------- staleness claim helpers

\* The tasks retain_out_of_date has evaluated so far (1-based positions).
Evaluated == 1..Len(modification_times)

\* The call has not failed: the pairs collected so far are what it reports.
NotFailed == result.kind \in {"None", "Ok"}

\* The task at list position i (1-based) is reported stale.
IsStale(i) == \E k \in 1..Len(stale) : stale[k].handle = i - 1 /\ stale[k].task = tasks[i]

Gone(file) == file \in DOMAIN fs /\ fs[file].st = "Missing"

HasMissingTarget(task) == \E k \in 1..Len(task.targets) : Gone(task.targets[k])

\* The target time T of the specification's table: None if the task has no
\* target or a target is missing, else the newest target time.
TableT(task) ==
    IF task.targets = <<>> \/ HasMissingTarget(task) THEN None
    ELSE Some(MaxOf({fs[task.targets[k]].mtime : k \in 1..Len(task.targets)}))

\* The times the prerequisites of the task at position i contributed: file
\* times of Named prerequisites, and for a Handle the record the code read.
ContributedTimes(i) ==
    {IF tasks[i].upstream[k].kind = "Named"
     THEN fs[tasks[i].upstream[k].path].mtime
     ELSE At(modification_times, tasks[i].upstream[k].index)[1] :
        k \in 1..Len(tasks[i].upstream)}

\* The upstream time U of the specification's table.
TableU(i) == IF ContributedTimes(i) = {} THEN None ELSE Some(MaxOf(ContributedTimes(i)))

\* The spec a task of the emitted list was made from.
SpecOf(task) == At(MergedSpecs(units), task.id).spec

\* The Named prerequisite specs of a task that name no produced target.
ExternalNamed(task) ==
    {ps \in Range(SpecOf(task).consumes \o SpecOf(task).depends_on
                  \o SpecOf(task).not_before) :
        ps.kind = "Named" /\ LutGet(FlatTargets(units), ps.path) = None}

IsOptional(ps) == "optional" \in DOMAIN ps /\ ps.optional

\* The task whose evaluation ended the call with an error.
FailedTask == At(tasks, Len(modification_times))

\* ------------------------------------------------------- staleness claims

\* C4: stale closure.  If the call returns task u as stale and task d has
\* Handle(u) in its upstream, the call returns d as stale too.
C4_StaleClosure ==
    result.kind = "Ok" =>
        \A k \in 1..Len(result.list), d \in 1..Len(tasks) :
            result.list[k].task.id \in UpHandles(tasks[d]) =>
                \E j \in 1..Len(result.list) : result.list[j].task.id = tasks[d].id

\* C5: the staleness decision.  Every evaluated task is reported stale and
\* records now exactly when T is None or U = Some(u), T = Some(t) and u > t;
\* otherwise it is reported fresh and records T.
C5_StalenessDecision ==
    NotFailed =>
        \A i \in Evaluated :
            LET T == TableT(tasks[i])
                U == TableU(i)
            IN IF T = None \/ (U # None /\ U[1] > T[1])
               THEN IsStale(i) /\ modification_times[i] = Some(Now)
               ELSE ~IsStale(i) /\ modification_times[i] = T

\* C5 witness: a task was evaluated whose upstream time equals its target
\* time, and another whose upstream time is None, both with targets present.
C5_Witness ==
    /\ NotFailed
    /\ \E i \in Evaluated :
          TableT(tasks[i]) # None /\ TableU(i) = TableT(tasks[i]) /\ ~IsStale(i)
    /\ \E i \in Evaluated :
          TableT(tasks[i]) # None /\ TableU(i) = None /\ ~IsStale(i)

\* C6: when a task is about to be evaluated, for every Handle(h) in its
\* upstream the record modification_times[h] is written already and is the
\* record of the task that produces the prerequisite (the task with id h).
C6_RecordRead ==
    (pc = "eval" /\ Len(modification_times) < Len(tasks)) =>
        \A h \in UpHandles(At(tasks, Len(modification_times))) :
            /\ h < Len(modification_times)
            /\ At(tasks, h).id = h

\* C8, as claimed: once the call has ended, every task with a target file
\* missing on disk has been reported stale, whatever its prerequisites.
C8_MissingTargetAlwaysStale ==
    pc = "done" =>
        \A i \in 1..Len(tasks) :
            HasMissingTarget(tasks[i]) =>
                \E k \in 1..Len(result.list) :
                    result.list[k].handle = i - 1 /\ result.list[k].task = tasks[i]

\* C8, amended: every task evaluated with a target file missing is collected
\* as stale, and a call that returns a list returns every such task in it.
C8_MissingTargetStaleUnlessError ==
    /\ NotFailed => \A i \in Evaluated : HasMissingTarget(tasks[i]) => IsStale(i)
    /\ result.kind = "Ok" =>
          \A i \in 1..Len(tasks) :
              HasMissingTarget(tasks[i]) =>
                  \E k \in 1..Len(result.list) :
                      result.list[k].handle = i - 1 /\ result.list[k].task = tasks[i]

\* C8 witness: the call returned a list holding a task with one target
\* present and newer than its prerequisite file, and one target missing.
C8_Witness ==
    /\ result.kind = "Ok"
    /\ \E k \in 1..Len(result.list) :
          LET task == result.list[k].task IN
          /\ HasMissingTarget(task)
          /\ \E t \in 1..Len(task.targets), u \in 1..Len(task.upstream) :
                /\ fs[task.targets[t]].st = "Present"
                /\ task.upstream[u].kind = "Named"
                /\ fs[task.upstream[u].path].mtime < fs[task.targets[t]].mtime

\* C9: a Named prerequisite whose file does not exist is skipped when it is
\* optional and fails the evaluation with PrerequisiteMissing when it is
\* not: the call fails with PrerequisiteMissing only on a task with a
\* non-optional Named prerequisite that cannot be stat'ed, and no task with
\* a missing non-optional Named prerequisite is evaluated without error.
C9_MissingNamed ==
    /\ (pc = "done" /\ result.kind = "Err" /\ result.err = "PrerequisiteMissing") =>
          \E ps \in ExternalNamed(FailedTask) :
              /\ ~IsOptional(ps)
              /\ fs[Join(Prefix, ps.path)].st \in {"Missing", "Denied"}
    /\ \A i \in Evaluated : \A ps \in ExternalNamed(tasks[i]) :
          ~IsOptional(ps) => ~Gone(Join(Prefix, ps.path))

\* The time of a consumes or depends_on prerequisite as the claim means it:
\* the file time of a Named one, the record of the producing task for a
\* Handle (None while that task has no record).
ProducerTime(prerequisite) ==
    IF prerequisite.kind = "Named" THEN Some(fs[prerequisite.path].mtime)
    ELSE IF \E k \in Evaluated : tasks[k].id = prerequisite.index
         THEN modification_times[CHOOSE k \in Evaluated : tasks[k].id = prerequisite.index]
         ELSE None

\* C10: a not_before prerequisite never makes the declaring task stale.  An
\* evaluated task whose targets are all present and newer than every
\* consumes and depends_on prerequisite is reported fresh.
C10_NotBeforeOnlyOrders ==
    NotFailed =>
        \A i \in Evaluated :
            LET T == TableT(tasks[i])
                counted == Len(tasks[i].upstream) - Len(SpecOf(tasks[i]).not_before)
            IN (/\ T # None
                /\ \A k \in 1..counted :
                      LET u == ProducerTime(tasks[i].upstream[k]) IN
                      u # None /\ u[1] < T[1])
               => ~IsStale(i)

\* Every command the first invocation ran wrote all targets of its task.
AllWritten == built.wrote = built.ran

\* The second invocation has returned its list.
SecondReturned == run = 2 /\ pc = "done" /\ result.kind = "Ok"

\* The task at list position i reads, through a Handle, the record of a task
\* that is reported stale.
ReadsStaleRecord(i) ==
    \E k \in 1..Len(tasks[i].upstream) :
        /\ tasks[i].upstream[k].kind = "Handle"
        /\ IsStale(tasks[i].upstream[k].index + 1)

C12_StaleSubsequence ==
    result.kind = "Ok" =>
        /\ \A k \in 1..Len(result.list) :
              /\ result.list[k].handle < Len(tasks)
              /\ At(tasks, result.list[k].handle) = result.list[k].task
        /\ \A j \in 1..Len(result.list), k \in 1..Len(result.list) :
              j < k => result.list[j].handle < result.list[k].handle

\* C12 witness: a returned list that leaves out a fresh task standing before
\* a stale one, so a handle differs from its place in the returned list.
C12_Witness ==
    /\ result.kind = "Ok"
    /\ \E k \in 1..Len(result.list) :
          /\ result.list[k].handle # k - 1
          /\ At(tasks, result.list[k].handle) = result.list[k].task

\* ------------------------------------------------------ relativiser claims

\* The number of ".." segments a path starts with.
LeadingParents(path) ==
    Cardinality({i \in 1..Len(path) : \A j \in 1..i : path[j] = ".."})

\* C13, as claimed: relativisation is idempotent for every context, base
\* directory and path for which relativise succeeds.
C13_RelativiseIdempotent ==
    (call.op = "relativise" /\ call.second # Pending) => call.second = call.first

\* C13, amended: relativisation is idempotent when the base directory of
\* the Relativiser is the context directory.
C13_RelativiseIdempotentAtContext ==
    (call.op = "relativise" /\ call.second # Pending /\ call.base = call.context) =>
        call.second = call.first

\* C13 witness: a path with ".." and "." segments that leaves the context
\* was relativised twice from the context directory.
C13_Witness ==
    /\ call.op = "relativise"
    /\ call.base = call.context
    /\ call.second.kind = "Ok"
    /\ call.first.value # call.path
    /\ LeadingParents(call.first.value) > 0
    /\ LeadingParents(call.first.value) < Len(call.first.value)

\* C14, as claimed: relativise fails with Underflow or returns a path that
\* does not start with a ".." segment.
C14_NeverEscapesContext ==
    (call.op = "relativise" /\ call.first.kind = "Ok") =>
        LeadingParents(call.first.value) = 0

\* ------------------------------------------------------- decompose claims

\* C15: fan-out.  Unit::decompose gives one TaskSet per task, in order.  A
\* task with aggregate = false and n > 1 consumed inputs becomes n tasks,
\* the i-th consuming only the i-th input, with aggregate = true and the
\* targets, depends_on, not_before, env and recipe of the task; any other
\* task is passed through alone and unchanged.
C15_FanOut ==
    (call.op = "decompose" /\ call.out # Pending) =>
        /\ call.out.kind = "Ok"
        /\ Len(call.out.value) = Len(call.tasks)
        /\ \A k \in 1..Len(call.tasks) :
              LET task == call.tasks[k]
                  set == call.out.value[k]
              IN IF ~task.aggregate /\ Len(task.consumes) > 1
                 THEN /\ Len(set) = Len(task.consumes)
                      /\ \A i \in 1..Len(set) :
                            /\ set[i].consumes = <<task.consumes[i]>>
                            /\ set[i].aggregate = TRUE
                            /\ set[i].targets = task.targets
                            /\ set[i].depends_on = task.depends_on
                            /\ set[i].not_before = task.not_before
                            /\ set[i].env = task.env
                            /\ set[i].recipe = task.recipe
                 ELSE set = <<task>>

\* C15 witness: a Unit was decomposed whose first task has three different
\* inputs and no aggregate flag and whose second has two and the flag.
C15_Witness ==
    /\ call.op = "decompose"
    /\ call.out.kind = "Ok"
    /\ Len(call.tasks) = 2
    /\ ~call.tasks[1].aggregate
    /\ Len(call.tasks[1].consumes) = 3
    /\ call.tasks[1].consumes[1] # call.tasks[1].consumes[2]
    /\ Len(call.out.value[1]) = 3
    /\ call.tasks[2].aggregate
    /\ Len(call.tasks[2].consumes) = 2
    /\ Len(call.out.value[2]) = 1

\* ---------------------------------------------------- gather_units claims

\* The Units below and at a file, children in declaration order before the
\* parent; a file that gives no Unit stands for nothing.
RECURSIVE PostOrder(_, _)
PostOrder(disk, file) ==
    IF disk[file].state # "Ok" THEN <<>>
    ELSE Concat([i \in 1..Len(disk[file].sub_units) |->
                    PostOrder(disk, disk[file].sub_units[i].file)])
         \o <<file>>

\* C16: gather_units returns the Units in post-order: each declared sub-unit
\* and everything below it stands before the declaring Unit, the sub-units
\* of one Unit in declaration order, and the root Unit is last.
C16_PostOrder ==
    (call.op = "gather" /\ call.out.kind = "Ok") =>
        /\ call.out.value = PostOrder(call.disk, call.root[1])
        /\ call.out.value[Len(call.out.value)] = call.root[1]

\* C16 witness: the root declares two different sub-units, the first of
\* which declares a sub-unit itself, and all four Units were returned.
C16_Witness ==
    /\ call.op = "gather"
    /\ call.out.kind = "Ok"
    /\ Len(call.out.value) = 4
    /\ Len(call.disk[call.root[1]].sub_units) = 2
    /\ call.disk[call.root[1]].sub_units[1].file = SubA
    /\ call.disk[call.root[1]].sub_units[2].file = SubB
    /\ Len(call.disk[SubA].sub_units) = 1

\* The registered extensions, in registration order, that have an asmbl.<ext>
\* file in the context directory.
ExistingRoots ==
    SelectSeq(call.registered,
              LAMBDA ext : call.disk[RootFile(ext)].state # "NotFound")

\* C17: when several registered extensions have an existing asmbl.<ext> in
\* the context directory, gather_units picks the file of the extension that
\* was registered first.
C17_RegistrationOrder ==
    (call.op = "gather" /\ call.out # Pending /\ ExistingRoots # <<>>) =>
        call.root = Some(RootFile(ExistingRoots[1]))

\* ------------------------------------------------------- resolve claims

\* The "%" characters before position i that touch it in an unbroken run.
PercentRun(spec, i) ==
    Cardinality({j \in 1..(i - 1) : \A k \in j..(i - 1) : spec[k] = "%"})

\* Position i starts a marker: a "%" that is not the second of a pair.
IsMarker(spec, i) == spec[i] = "%" /\ PercentRun(spec, i) % 2 = 0

\* The error the marker at position i raises, "" when it raises none.
MarkerError(spec, input, i) ==
    IF i = Len(spec) THEN "MissingMarkerCharacter"
    ELSE IF spec[i + 1] = "%" THEN ""
    ELSE IF spec[i + 1] = "f" THEN InputStem(input).err
    ELSE "InvalidMarkerCharacter"

BadMarkers(spec, input) ==
    {i \in 1..Len(spec) : IsMarker(spec, i) /\ MarkerError(spec, input, i) # ""}

\* What position i of the spec adds to the expansion.
Piece(spec, input, i) ==
    IF IsMarker(spec, i) THEN <<>>
    ELSE IF i > 1 /\ IsMarker(spec, i - 1)
    THEN IF spec[i] = "f" THEN InputStem(input).value ELSE <<"%">>
    ELSE <<spec[i]>>

\* C18: TargetSpec::resolve scans the spec left to right.  The first marker
\* that cannot be expanded decides the error: MissingMarkerCharacter for a
\* "%" at the end, InvalidMarkerCharacter for "%" before a character other
\* than "%" and "f", NoInput for "%f" without an input.  Otherwise the result
\* is the prefix joined with the expansion, in which "%%" is "%", "%f" is the
\* input's file stem and every other character is itself.  A spec without
\* "%" never fails.
C18_Resolve ==
    (call.op = "resolve" /\ call.out # Pending) =>
        LET spec == call.spec
            bad == BadMarkers(spec, call.input)
        IN /\ IF bad # {}
              THEN LET i == CHOOSE i \in bad : \A j \in bad : i <= j
                   IN /\ call.out = Failure(MarkerError(spec, call.input, i))
                      /\ (i = Len(spec)) => call.out.err = "MissingMarkerCharacter"
                      /\ (i < Len(spec) /\ spec[i + 1] = "f" /\ call.input = None)
                            => call.out.err = "NoInput"
                      /\ (i < Len(spec) /\ spec[i + 1] \notin {"%", "f"})
                            => call.out.err = "InvalidMarkerCharacter"
              ELSE call.out =
                      Value(PathPush(call.prefix,
                          Concat([i \in 1..Len(spec) |-> Piece(spec, call.input, i)])))
           /\ ("%" \notin Range(spec)) =>
                 call.out = Value(PathPush(call.prefix, spec))

\* C18 witness: "%%%f" was resolved against the input d/a.c below the
\* prefix d and gave d/%a.
C18_Witness ==
    /\ call.op = "resolve"
    /\ call.spec = <<"%", "%", "%", "f">>
    /\ call.input = Some(<<<<"d">>, <<"a", ".", "c">>>>)
    /\ call.prefix = <<"d">>
    /\ call.out = Value(<<"d", "/", "%", "a">>)

\* ------------------------------------------------------- prepare claims

\* The elements at which rendering stops with an error.
Failing(k) ==
    LET el == call.elements[k]
    IN \/ el.kind = "Input" /\ el.index >= Len(call.inputs)
       \/ el.kind = "Target" /\ el.index >= Len(call.targets)
       \/ el.kind = "Other"

FirstFailing ==
    {k \in 1..Len(call.elements) : Failing(k) /\ \A j \in 1..(k - 1) : ~Failing(j)}

\* What one element adds to the command line.
Text(el) ==
    CASE el.kind = "Str" -> <<el.s>>
      [] el.kind = "Input" -> <<At(call.inputs, el.index)>>
      [] el.kind = "Target" -> <<At(call.targets, el.index)>>
      [] el.kind = "Inputs" -> JoinSpace(call.inputs)
      [] el.kind = "Targets" -> JoinSpace(call.targets)
      [] OTHER -> <<>>

Prepared == call.op = "prepare" /\ call.out.kind # "Pending"

UnicodePaths == "!" \notin Range(call.targets) \cup Range(call.inputs)

\* C19: Recipe::prepare bounds-checks indexed variables.  When the first
\* element that cannot be rendered is Input(i) with i >= the number of
\* inputs, prepare fails with InputIndexOutOfRange(i); Target(i) likewise
\* with TargetIndexOutOfRange(i).  Neither error is raised otherwise, and a
\* prepared command holds, for every Input(i) and Target(i), the i-th path.
C19_IndexBounds ==
    (Prepared /\ UnicodePaths) =>
        /\ \A k \in FirstFailing :
              LET el == call.elements[k]
              IN /\ el.kind = "Input" =>
                       /\ call.out.kind = "Err"
                       /\ call.out.err = "InputIndexOutOfRange"
                       /\ call.out.value = el.index
                 /\ el.kind = "Target" =>
                       /\ call.out.kind = "Err"
                       /\ call.out.err = "TargetIndexOutOfRange"
                       /\ call.out.value = el.index
        /\ (call.out.kind = "Err"
              /\ call.out.err \in {"InputIndexOutOfRange", "TargetIndexOutOfRange"})
              => \E k \in FirstFailing :
                    /\ call.elements[k].index = call.out.value
                    /\ call.elements[k].kind =
                          (IF call.out.err = "InputIndexOutOfRange"
                           THEN "Input" ELSE "Target")
        /\ call.out.kind = "Ok" =>
              /\ FirstFailing = {}
              /\ Concat(<<call.out.value.cmd>> \o call.out.value.args)
                    = Concat([k \in 1..Len(call.elements) |-> Text(call.elements[k])])

\* C19 witness: with two inputs, a recipe that renders Input(1) and then
\* names Input(2) failed with InputIndexOutOfRange(2).
C19_Witness ==
    /\ call.op = "prepare"
    /\ call.elements = <<Input(1), Input(2), Break>>
    /\ call.inputs = <<"a", "b">>
    /\ call.out.kind = "Err"
    /\ call.out.err = "InputIndexOutOfRange"
    /\ call.out.value = 2

\* The entries of the EnvSpec list that resolve to a value.
Resolves(k) ==
    call.env[k].value # None \/ call.env[k].name \in DOMAIN call.parent

ResolvedValue(k) ==
    IF call.env[k].value # None THEN call.env[k].value[1]
    ELSE call.parent[call.env[k].name]

\* C20: the environment of a prepared command holds exactly the names of
\* the EnvSpec list that resolve to a value: Define(name, v) sets name to v,
\* Inherit(name) copies the parent's value when the parent has name set and
\* is dropped otherwise, the entries taking effect in list order; no other
\* variable of the parent environment is present.
C20_EnvFromSpecList ==
    (Prepared /\ call.out.kind = "Ok") =>
        LET env == call.out.value.env
        IN /\ DOMAIN env =
                 {call.env[k].name : k \in {j \in 1..Len(call.env) : Resolves(j)}}
           /\ \A k \in 1..Len(call.env) :
                 (/\ Resolves(k)
                  /\ \A j \in (k + 1)..Len(call.env) :
                        Resolves(j) => call.env[j].name # call.env[k].name)
                    => env[call.env[k].name] = ResolvedValue(k)
           /\ \A n \in DOMAIN call.parent :
                 n \notin {call.env[k].name : k \in 1..Len(call.env)}
                    => n \notin DOMAIN env

\* C20 witness: a command was prepared from an Inherit of a name the parent
\* lacks, an Inherit of a name it has and a Define, while the parent has a
\* variable the list does not name.
C20_Witness ==
    /\ call.op = "prepare"
    /\ call.out.kind = "Ok"
    /\ call.env = <<Inherit("CC"), Inherit("HOME"), Define("OPT", "1")>>
    /\ DOMAIN call.parent = {"HOME", "LANG"}
    /\ DOMAIN call.out.value.env = {"HOME", "OPT"}
    /\ call.out.value.env["HOME"] = "/h"
    /\ call.out.value.env["OPT"] = "1"

\* ------------------------------------------------------------ fusion claims

\* The (target, prerequisite) pairs whose target some task produces.
MatchingPairs ==
    {pair \in Range(FlattenPrerequisites(units)) :
        LutGet(FlatTargets(units), pair[1]) # None}

\* The task that produces a path.
Producer(path) == LutGet(FlatTargets(units), path)[1][1]

\* C21: include merging.  For every (target, prerequisite) pair read from a
\* dependency fragment whose target is a path some task produces, that
\* task's depends_on ends with an optional Named(prerequisite) entry; a pair
\* whose target no task produces leaves all tasks unchanged.
C21_IncludeMerging ==
    pc = "planned" =>
        /\ \A pair \in MatchingPairs :
              \E e \in Range(At(MergedSpecs(units), Producer(pair[1])).spec.depends_on) :
                  /\ e.kind = "Named"
                  /\ e.path = pair[2]
                  /\ IsOptional(e)
        /\ MatchingPairs = {} => MergedSpecs(units) = FlattenSpecs(units, 0)

\* C22: handle resolution across Units.  A Handle prerequisite with local
\* task index k, declared in a Unit whose task offset is o, resolves to the
\* global task o + k, and the input path it adds to the consuming task is
\* the target, at the handle's target_index, of that same task o + k.
C22_HandleAcrossUnits ==
    pc = "planned" =>
        \A t \in 1..Len(tasks) :
            LET flat == At(FlattenSpecs(units, 0), tasks[t].id)
            IN \A i \in 1..Len(flat.spec.consumes) :
                  LET ps == flat.spec.consumes[i]
                  IN ps.kind = "Handle" =>
                        /\ tasks[t].upstream[i].kind = "Handle"
                        /\ tasks[t].upstream[i].index = flat.offset + ps.task_index
                        /\ tasks[t].inputs[i] =
                              At(At(FlatTargets(units), flat.offset + ps.task_index),
                                 ps.target_index)

ProducersIn(targets, path) ==
    {k \in 0..(Len(targets) - 1) : path \in Range(At(targets, k))}

Producers(path) == ProducersIn(FlatTargets(units), path)

\* C24: prerequisite resolution.  Every Named prerequisite whose path is a
\* produced target becomes Handle(a task producing it) and every other
\* Named prerequisite stays Named, below the target prefix; upstream keeps
\* the order consumes, depends_on, not_before; the inputs are the paths of
\* the consumes prerequisites in their order, and depends_on and not_before
\* add no input.  A Handle prerequisite keeps its place as a Handle; which
\* path it adds is the matter of C22.
C24_PrerequisiteResolution ==
    pc = "planned" =>
        LET merged == MergedSpecs(units)
            targets == FlatTargets(units)
        IN \A t \in 1..Len(tasks) :
            LET spec == At(merged, tasks[t].id).spec
                all == spec.consumes \o spec.depends_on \o spec.not_before
            IN /\ Len(tasks[t].upstream) = Len(all)
               /\ Len(tasks[t].inputs) = Len(spec.consumes)
               /\ \A i \in 1..Len(all) :
                     all[i].kind = "Handle" => tasks[t].upstream[i].kind = "Handle"
               /\ \A i \in 1..Len(all) :
                     all[i].kind = "Named" =>
                        LET producers == ProducersIn(targets, all[i].path) IN
                        IF producers # {}
                        THEN /\ tasks[t].upstream[i].kind = "Handle"
                             /\ tasks[t].upstream[i].index \in producers
                             /\ i <= Len(spec.consumes) =>
                                   tasks[t].inputs[i] = all[i].path
                        ELSE /\ tasks[t].upstream[i].kind = "Named"
                             /\ tasks[t].upstream[i].path = Join(Prefix, all[i].path)
                             /\ i <= Len(spec.consumes) =>
                                   tasks[t].inputs[i] = Join(Prefix, all[i].path)

\* C24 witness: the emitted list holds a task that consumes an external
\* file and then a produced target, and a task with a depends_on and a
\* not_before prerequisite and no input.
C24_Witness ==
    /\ pc = "planned"
    /\ \E t \in 1..Len(tasks) :
          /\ Len(tasks[t].inputs) = 2
          /\ tasks[t].upstream[1].kind = "Named"
          /\ tasks[t].upstream[2].kind = "Handle"
          /\ tasks[t].inputs[1] # tasks[t].inputs[2]
    /\ \E t \in 1..Len(tasks) :
          /\ tasks[t].inputs = <<>>
          /\ Len(tasks[t].upstream) = 2

\* The number of times x stands in the sequence seq.
Occurrences(seq, x) == Cardinality({i \in 1..Len(seq) : seq[i] = x})

\* C25: after TaskList::new has resolved the prerequisites, task s stands in
\* the downstream list of task p if and only if Handle(p) stands in the
\* upstream list of s, once for every such Handle; the emitted tasks carry
\* those same lists.
C25_ReverseEdges ==
    pc = "planned" =>
       LET g == Unordered(units)
           ids == 0..(Len(g) - 1)
       IN /\ \A p \in ids : \A s \in ids :
                Occurrences(At(g, p).downstream, s)
                   = Occurrences(At(g, s).upstream, [kind |-> "Handle", index |-> p])
          /\ \A p \in ids : Range(At(g, p).downstream) \subseteq ids
          /\ \A k \in 1..Len(tasks) :
                /\ tasks[k].downstream = At(g, tasks[k].id).downstream
                /\ tasks[k].upstream = At(g, tasks[k].id).upstream

\* A planned graph in which a task reaches its producer through depends_on
\* alone, and another pair of tasks has no edge between them.
C25_Witness ==
    /\ pc = "planned"
    /\ \E p \in Ids : \E s \in Ids :
          /\ s # p
          /\ s \in Range(At(Graph, p).downstream)
          /\ At(Graph, s).inputs = <<>>
    /\ \E p \in Ids : \E s \in Ids :
          /\ s # p
          /\ s \notin Range(At(Graph, p).downstream)
          /\ At(Graph, s).upstream # <<>>

\* The tasks that lie on a dependency cycle, a self-dependency included.
OnCycle == {v \in Ids : v \in Closure(Down({v}))}

\* C26: TaskList::new returns for every graph, no error is raised, and no
\* task on a dependency cycle stands in the emitted list.
C26_CyclesOmitted ==
    pc = "planned" => EmittedIds \cap OnCycle = {}

\* What the closure gives for the task at place k of the list, with the
\* records of the tasks before it.
EvaluateAt(k) == Evaluate(At(tasks, k), SubSeq(modification_times, 1, k), fs)

\* C27: retain_out_of_date is fail-fast.  A call that returns an error
\* returns the error of the first task in list order whose evaluation
\* fails: every task before it was evaluated without error, no file of a
\* later task alone was looked at, no record was made for the failing task
\* or a later one, and no pair is returned.
C27_FailFast ==
    (pc = "done" /\ result.kind = "Err") =>
       LET n == Len(modification_times) IN
       /\ n < Len(tasks)
       /\ result.err \in {"PrerequisiteMissing", "NoLastModifiedTime", "IoError"}
       /\ result.list = <<>>
       /\ EvaluateAt(n).kind = "Err"
       /\ EvaluateAt(n).err = result.err
       /\ \A k \in 0..(n - 1) : EvaluateAt(k).kind = "Ok"
       /\ DOMAIN fs \subseteq UNION {TaskFiles(At(tasks, k)) : k \in 0..n}

\* A call fails at a task that is not the first of the list, after a stale
\* task was collected.
C27_Witness ==
    /\ pc = "done"
    /\ result.kind = "Err"
    /\ Len(modification_times) >= 1
    /\ \E k \in 0..(Len(modification_times) - 1) :
          EvaluateAt(k).kind = "Ok" /\ EvaluateAt(k).time.stale

\* ----------------------------------------------------- make fragment claims

\* The pairs of one rule: for each target in order, each prerequisite in
\* order.
RulePairs(rule) ==
    [k \in 1..(Len(rule.targets) * Len(rule.prerequisites)) |->
        <<rule.targets[((k - 1) \div Len(rule.prerequisites)) + 1],
          rule.prerequisites[((k - 1) % Len(rule.prerequisites)) + 1]>>]

\* The pairs of the rules from place r on, rule after rule.
RECURSIVE PairsFrom(_, _)
PairsFrom(rules, r) ==
    IF r > Len(rules) THEN <<>> ELSE RulePairs(rules[r]) \o PairsFrom(rules, r + 1)

\* The sum over the rules from place r on of |targets| * |prerequisites|.
RECURSIVE PairCount(_, _)
PairCount(rules, r) ==
    IF r > Len(rules) THEN 0
    ELSE Len(rules[r].targets) * Len(rules[r].prerequisites) + PairCount(rules, r + 1)

\* C28: the Makefile-fragment iterator returns, for the rules in order, the
\* pairs (t, p) for each target t of the rule in order and each prerequisite
\* p of the rule in order, as many as the sum over the rules of
\* |targets| * |prerequisites| (none for a rule without prerequisites), and
\* after the last pair it returns None on every further call.
C28_CrossProduct ==
    call.op = "cake" =>
       LET expected == PairsFrom(call.it.rules, 1)
           items == call.items
       IN /\ Len(expected) = PairCount(call.it.rules, 1)
          /\ \A i \in 1..Len(items) :
                IF i <= Len(expected) THEN items[i] = Some(expected[i])
                ELSE items[i] = None

\* The iterator went through a rule without prerequisites and then a rule
\* with two targets and two prerequisites, and has returned None twice.
C28_Witness ==
    /\ call.op = "cake"
    /\ Len(call.it.rules) = 2
    /\ call.it.rules[1].prerequisites = <<>>
    /\ Len(call.it.rules[2].targets) = 2
    /\ Len(call.it.rules[2].prerequisites) = 2
    /\ Len(call.items) = 6
    /\ call.items[5] = None
    /\ call.items[6] = None

\* ----------------------------------------------------- recipe parser claims

\* variable() has returned for a text written as '$', name, index, after.
VariableParsed == call.op = "variable" /\ call.out.kind # "Pending"

\* C29: `$<` and `$inputs` parse to Inputs and, with `[n]`, to Input(n);
\* `$@` and `$targets` parse to Targets and, with `[n]`, to Target(n); any
\* other name of alphanumeric, `_` or `-` characters parses to the variable
\* of that name, and an index written after such a name is consumed and
\* discarded.  In every case the parser stops right after the index.
C29_VariableParsing ==
    VariableParsed =>
       /\ call.out.kind = "Ok"
       /\ call.out.rest = call.after
       /\ LET var == call.out.value
              n == IF call.index = None THEN 0 ELSE FromStrRadix10(call.index[1], 0)
          IN IF call.name \in {<<"<">>, NameInputs}
             THEN IF call.index = None THEN var.kind = "Inputs"
                  ELSE var.kind = "Input" /\ var.index = n
             ELSE IF call.name \in {<<"@">>, NameTargets}
             THEN IF call.index = None THEN var.kind = "Targets"
                  ELSE var.kind = "Target" /\ var.index = n
             ELSE var.kind = "Other" /\ var.s = call.name

\* A name that is no keyword was parsed with an index behind it and text
\* after that: the variable has the name, the index is gone from the text.
C29_Witness ==
    /\ VariableParsed
    /\ call.name \notin {<<"<">>, <<"@">>, NameInputs, NameTargets}
    /\ Len(call.name) > 1
    /\ call.index # None
    /\ call.after # <<>>
    /\ call.out.value.kind = "Other"
    /\ call.out.rest = call.after

\* ------------------------------------------------ tasks without targets claims

\* The task at list position i (1-based) is in the list the call returned.
Returned(i) ==
    \E k \in 1..Len(result.list) :
        result.list[k].handle = i - 1 /\ result.list[k].task = tasks[i]

\* C30, as claimed: once the call has ended, every task with an empty target
\* list has been reported stale.
C30_PhonyAlwaysStale ==
    pc = "done" => \A i \in 1..Len(tasks) : tasks[i].targets = <<>> => Returned(i)

\* C30, amended: every task with an empty target list that is evaluated is
\* collected as stale and records now, and a call that returns a list
\* returns every such task in it; the record of every evaluated task is a
\* present value, so the time of a Handle prerequisite whose task was
\* evaluated is never skipped.
C30_PhonyStaleUnlessError ==
    /\ NotFailed =>
          \A i \in Evaluated : tasks[i].targets = <<>> => IsStale(i)
    /\ \A i \in Evaluated : tasks[i].targets = <<>> => modification_times[i] = Some(Now)
    /\ result.kind = "Ok" =>
          \A i \in 1..Len(tasks) : tasks[i].targets = <<>> => Returned(i)
    /\ \A i \in Evaluated : modification_times[i] # None
    /\ pc \in {"eval", "done"} =>
          \A i \in 1..Len(tasks) : \A k \in 1..Len(tasks[i].upstream) :
              LET t == PrerequisiteTime(tasks[i].upstream[k], modification_times, fs) IN
              (tasks[i].upstream[k].kind = "Handle" /\ t.kind = "Ok") => t.time # None

\* The call returned a list holding a task without targets whose
\* prerequisite is a Handle, and that task recorded now.
C30_Witness ==
    /\ result.kind = "Ok"
    /\ \E k \in 1..Len(result.list) :
          LET task == result.list[k].task IN
          /\ task.targets = <<>>
          /\ \E u \in 1..Len(task.upstream) : task.upstream[u].kind = "Handle"
          /\ At(modification_times, result.list[k].handle) = Some(Now)

====
